---- MODULE Spec2Model ----
(***************************************************************************)
(* Transition engine of the LED controller firmware                        *)
(* (components/transition_engine) together with the start-up code of       *)
(* app_main that seeds and registers the segments' transitions, the        *)
(* colour engine's hue helpers and hsv_to_rgb, the renderer (update_leds   *)
(* over the LED driver's strip buffers), the tasks that call it, and       *)
(* preset save and recall.                                                 *)
(*                                                                         *)
(* Time is the value of esp_timer_get_time() in microseconds.              *)
(***************************************************************************)
EXTENDS Integers, Sequences, FiniteSets, TLC

VARIABLES
    trans,        \* TransIds -> transition_t (the caller-owned structs)
    settled,      \* TransIds -> settled field of s_state the transition belongs to
    s_registry,   \* sequence of registered references (s_registry[0..s_registry_count-1])
    s_timer,      \* FALSE = NULL handle, TRUE = periodic timer running
    now,          \* esp_timer_get_time()
    pc,           \* position of app_main in its start-up sequence
    last,         \* the last operation executed, with what it saw before it ran
    calc,         \* one call of a pure helper: function, arguments, result
    s_geom,       \* Segs -> segment_geom_t
    s_state,      \* Segs -> segment_light_t, its four transition_t included
    s_strips,     \* Strips -> strip_data_t: count and pixel_buf
    frame,        \* Strips -> the pixels last transmitted to the strip
    nvs,          \* the blobs of namespace "led_cfg"
    s_slots,      \* slot -> preset_slot_t (name_length and the saved segments)
    g_global_transition_ms,
    s_save_timer, \* TRUE = the one-shot "cfg_save" timer is armed
    tasks,        \* task -> where it is in update_leds, and whether another
                  \* task has touched the strip buffers since its pass began
    zb_alarms,    \* callbacks pending in the Zigbee scheduler (esp_zb_scheduler_alarm)
    save_due,     \* expiry time of s_save_timer while a save is being debounced
    zcl_attrs     \* segment -> the attributes of its endpoint in the store of
                  \* the Zigbee stack (esp_zb_zcl_get_attribute reads them)

\* State outside the transition engine and the start-up sequence
app == <<calc, s_geom, s_state, s_strips, frame, nvs, s_slots,
        g_global_transition_ms, s_save_timer, tasks, zb_alarms, save_due,
        zcl_attrs>>
vars == <<trans, settled, s_registry, s_timer, now, pc, last, app>>

(***************************************************************************)
(* Bounds of the model                                                     *)
(***************************************************************************)
MaxTime == 4000         \* the clock stops advancing here (microseconds)
ClockStep == 1000       \* granularity of the clock (microseconds)

\* The transition_t objects of the model: two of the 32 embedded in s_state.
TransIds == {"level", "hue"}
\* The order in which app_main registers them
TransOrder == <<"level", "hue">>
NULL == "NULL"
Refs == TransIds \cup {NULL}

\* Targets handed to transition_start, durations (ms, uint16_t at every caller)
TargetValues == {0, 65535}
DurationsMs == {0, 2}
\* Every caller starts hue (and saturation) transitions with duration 0;
\* level (and colour temperature) get the global transition time.
DurationsOf(r) == IF r = "hue" THEN {0} ELSE DurationsMs
\* Settled values segment_manager_load() can leave in s_state
SeedValues == {0, 128}

(***************************************************************************)
(* Program constants                                                       *)
(***************************************************************************)
TRANSITION_REGISTRY_MAX == 64
ESP_OK == "ESP_OK"
ESP_FAIL == "ESP_FAIL"
ESP_ERR_NO_MEM == "ESP_ERR_NO_MEM"
ESP_ERR_INVALID_ARG == "ESP_ERR_INVALID_ARG"
ESP_ERR_NOT_FOUND == "ESP_ERR_NOT_FOUND"
MAX_PRESET_SLOTS == 8

(***************************************************************************)
(* C integer arithmetic                                                    *)
(***************************************************************************)
U16(x) == x % 65536
U8(x) == x % 256
\* (uint32_t)x = x mod 2^32, written with 16-bit factors
U32(x) == x - (((x \div 65536) \div 65536) * 65536) * 65536
\* (int16_t)x for an x that fits 32 bits
S16(x) == IF U16(x) >= 32768 THEN U16(x) - 65536 ELSE U16(x)
\* C division truncates toward zero; b > 0
CDiv(a, b) == IF a >= 0 THEN a \div b ELSE -((-a) \div b)
\* C remainder has the sign of the dividend; b > 0
CRem(a, b) == a - b * CDiv(a, b)

(***************************************************************************)
(* transition_t and the engine's functions, as functions on the struct     *)
(***************************************************************************)
ZeroTransition ==
    [active |-> FALSE, start_time_us |-> 0, duration_us |-> 0,
     start_value |-> 0, target_value |-> 0, current_value |-> 0]

\* transition_start that restarts from the old start value instead of
\* capturing the current one
transition_start_restart(t, target, duration_ms, clock) ==
    IF duration_ms = 0
    THEN [t EXCEPT !.start_value = target,
                   !.target_value = target,
                   !.current_value = target,
                   !.active = FALSE]
    ELSE [t EXCEPT !.current_value = t.start_value,
                   !.target_value = target,
                   !.duration_us = U32(duration_ms * 1000),
                   !.start_time_us = clock,
                   !.active = TRUE]

\* transition_start whose instant branch forgets to clear active
transition_start_stays_active(t, target, duration_ms, clock) ==
    IF duration_ms = 0
    THEN [t EXCEPT !.start_value = target,
                   !.target_value = target,
                   !.current_value = target]
    ELSE [t EXCEPT !.start_value = t.current_value,
                   !.target_value = target,
                   !.duration_us = U32(duration_ms * 1000),
                   !.start_time_us = clock,
                   !.active = TRUE]

transition_start(t, target, duration_ms, clock) ==
    IF duration_ms = 0
    THEN [t EXCEPT !.start_value = target,
                   !.target_value = target,
                   !.current_value = target,
                   !.active = FALSE]
    ELSE [t EXCEPT !.start_value = t.current_value,
                   !.target_value = target,
                   !.duration_us = U32(duration_ms * 1000),
                   !.start_time_us = clock,
                   !.active = TRUE]

transition_get_value(t) == t.current_value

transition_is_active(t) == t.active

\* transition_cancel that snaps to the target
transition_cancel_snap(t) ==
    [t EXCEPT !.active = FALSE, !.current_value = t.target_value]

transition_cancel(t) == [t EXCEPT !.active = FALSE]

\* no clock skew guard
ClampElapsed_none(e) == e

ClampElapsed(e) == IF e < 0 THEN 0 ELSE e

\* range computed as start - target
Interpolate_swapped(t, elapsed) ==
    LET range == t.start_value - t.target_value
    IN  U16(t.start_value + CDiv(range * elapsed, t.duration_us))

\* elapsed / duration computed first, in integers
Interpolate_div_first(t, elapsed) ==
    LET range == t.target_value - t.start_value
    IN  U16(t.start_value + range * CDiv(elapsed, t.duration_us))

Interpolate(t, elapsed) ==
    LET range == t.target_value - t.start_value
    IN  U16(t.start_value + CDiv(range * elapsed, t.duration_us))

\* completion that clears active without writing the target
transition_tick_no_snap(t, clock) ==
    IF ~t.active THEN t
    ELSE LET elapsed == ClampElapsed(clock - t.start_time_us)
         IN  IF elapsed >= t.duration_us
             THEN [t EXCEPT !.active = FALSE]
             ELSE [t EXCEPT !.current_value = Interpolate(t, elapsed)]

\* completion tested with > instead of >=
transition_tick_gt(t, clock) ==
    IF ~t.active THEN t
    ELSE LET elapsed == ClampElapsed(clock - t.start_time_us)
         IN  IF elapsed > t.duration_us
             THEN [t EXCEPT !.current_value = t.target_value,
                            !.active = FALSE]
             ELSE [t EXCEPT !.current_value = Interpolate(t, elapsed)]

transition_tick(t, clock) ==
    IF ~t.active THEN t
    ELSE LET elapsed == ClampElapsed(clock - t.start_time_us)
         IN  IF elapsed >= t.duration_us
             THEN [t EXCEPT !.current_value = t.target_value,
                            !.active = FALSE]
             ELSE [t EXCEPT !.current_value = Interpolate(t, elapsed)]

(***************************************************************************)
(* Hue helpers of the colour engine                                        *)
(***************************************************************************)
normalize_hue(hue_raw) ==
    IF hue_raw > 360
    THEN U16(CRem(S16(hue_raw), 360) + 360)
    ELSE hue_raw % 360

\* (variant: only the branch for arcs that cross 0 downwards)
hue_shortest_arc_one_way(current_hue, target_hue) ==
    LET current == S16(current_hue)
        target == S16(target_hue)
        diff == S16(target - current)
    IN  IF diff > 180 THEN S16(target - 360) ELSE target

hue_shortest_arc(current_hue, target_hue) ==
    LET current == S16(current_hue)
        target == S16(target_hue)
        diff == S16(target - current)
    IN  IF diff > 180 THEN S16(target - 360)
        ELSE IF diff < -180 THEN S16(target + 360)
        ELSE target

start_hue_transition(t, target_hue, duration_ms, clock) ==
    LET current_hue_raw == transition_get_value(t)
        current_hue == normalize_hue(current_hue_raw)
        adjusted_target == hue_shortest_arc(current_hue, target_hue)
    IN  transition_start(t, U16(adjusted_target), duration_ms, clock)

\* hsv_to_rgb: <<r, g, b>>.  The hue is corrected as in normalize_hue, then
\* the 6-region algorithm runs on whatever the correction left; region, p, q
\* and t are uint8_t, remainder is uint16_t, the arithmetic is int.
hsv_to_rgb(h0, s, v) ==
    LET h_signed == S16(h0)
        h == IF h0 > 360 THEN U16(CRem(h_signed, 360) + 360) ELSE h0 % 360
    IN  IF s = 0 THEN <<v, v, v>>
        ELSE
        LET region == U8(h \div 60)
            remainder == U16((h - region * 60) * 6)
            p == U8(CDiv(v * (254 - s), 254))
            q == U8(CDiv(v * (254 - CDiv(s * remainder, 360)), 254))
            t == U8(CDiv(v * (254 - CDiv(s * (360 - remainder), 360)), 254))
        IN  CASE region = 0 -> <<v, t, p>>
              [] region = 1 -> <<q, v, p>>
              [] region = 2 -> <<p, v, t>>
              [] region = 3 -> <<p, q, v>>
              [] region = 4 -> <<t, p, v>>
              [] OTHER -> <<v, p, q>>

(***************************************************************************)
(* The registry                                                            *)
(***************************************************************************)
Registered(r) == \E i \in 1..Len(s_registry) : s_registry[i] = r

\* (variant: the registry is full only when it holds more than the maximum)
transition_register_off_by_one(reg, r) ==
    IF r = NULL THEN <<ESP_ERR_INVALID_ARG, reg>>
    ELSE IF \E i \in 1..Len(reg) : reg[i] = r THEN <<ESP_OK, reg>>
    ELSE IF Len(reg) > TRANSITION_REGISTRY_MAX THEN <<ESP_ERR_NO_MEM, reg>>
    ELSE <<ESP_OK, Append(reg, r)>>

\* (variant: without the search for an existing entry)
transition_register_no_search(reg, r) ==
    IF r = NULL THEN <<ESP_ERR_INVALID_ARG, reg>>
    ELSE IF Len(reg) >= TRANSITION_REGISTRY_MAX THEN <<ESP_ERR_NO_MEM, reg>>
    ELSE <<ESP_OK, Append(reg, r)>>

\* transition_register: <<return value, registry afterwards>>
transition_register(reg, r) ==
    IF r = NULL THEN <<ESP_ERR_INVALID_ARG, reg>>
    ELSE IF \E i \in 1..Len(reg) : reg[i] = r THEN <<ESP_OK, reg>>
    ELSE IF Len(reg) >= TRANSITION_REGISTRY_MAX THEN <<ESP_ERR_NO_MEM, reg>>
    ELSE <<ESP_OK, Append(reg, r)>>

\* timer_callback whose loop skips the first registry entry
RECURSIVE TickRegistry_skip_first(_, _, _, _)
TickRegistry_skip_first(reg, i, tr, clock) ==
    IF i > Len(reg) THEN tr
    ELSE LET r == reg[i]
         IN  IF i > 1 /\ r # NULL /\ tr[r].active
             THEN TickRegistry_skip_first(reg, i + 1,
                               [tr EXCEPT ![r] = transition_tick(tr[r], clock)],
                               clock)
             ELSE TickRegistry_skip_first(reg, i + 1, tr, clock)

\* timer_callback that ticks the transitions of the segments whether or not
\* the registry holds them
RECURSIVE TickRegistry_unregistered_too(_, _, _, _)
TickRegistry_unregistered_too(reg, i, tr, clock) ==
    IF i > Len(reg)
    THEN [t \in DOMAIN tr |->
            IF t \in TransIds /\ tr[t].active
            THEN transition_tick(tr[t], clock) ELSE tr[t]]
    ELSE LET r == reg[i]
         IN  IF r # NULL /\ tr[r].active
             THEN TickRegistry_unregistered_too(reg, i + 1,
                               [tr EXCEPT ![r] = transition_tick(tr[r], clock)],
                               clock)
             ELSE TickRegistry_unregistered_too(reg, i + 1, tr, clock)

\* The loop of timer_callback from entry i on: every registered, active
\* transition is ticked; the clock reading is the same for all of them.
RECURSIVE TickRegistry(_, _, _, _)
TickRegistry(reg, i, tr, clock) ==
    IF i > Len(reg) THEN tr
    ELSE LET r == reg[i]
         IN  IF r # NULL /\ tr[r].active
             THEN TickRegistry(reg, i + 1,
                               [tr EXCEPT ![r] = transition_tick(tr[r], clock)],
                               clock)
             ELSE TickRegistry(reg, i + 1, tr, clock)

(***************************************************************************)
(* The record of the last operation                                        *)
(***************************************************************************)
NoOp ==
    [op |-> "none", t |-> NULL, target |-> 0, dur |-> 0,
     prev_active |-> FALSE, prev_value |-> 0, completed |-> {}, ret |-> ESP_OK]

Op(name, r) ==
    [NoOp EXCEPT !.op = name, !.t = r,
                 !.prev_active = IF r = NULL THEN FALSE ELSE trans[r].active,
                 !.prev_value = IF r = NULL THEN 0 ELSE trans[r].current_value]

\* The transitions an operation took from active to inactive at their target
CompletedBy(after) ==
    {t \in TransIds : trans[t].active /\ ~after[t].active
                       /\ after[t].current_value = after[t].target_value}

(***************************************************************************)
(* Segments (segment_manager) and the strip buffers (led_driver)           *)
(***************************************************************************)
\* Three of the MAX_SEGMENTS segments, in index order
Segs == {0, 1, 2}
SegOrder == <<0, 1, 2>>
\* Valid strip indices: strip < LED_DRIVER_MAX_STRIPS
Strips == {0, 1}
\* g_strip_count handed to led_driver_init
StripCounts == <<3, 2>>

ZeroPixel == [r |-> 0, g |-> 0, b |-> 0, w |-> 0]

\* segment_manager_init: off, level 128, 250 mireds, StartUpOnOff previous
DefaultLight ==
    [on |-> FALSE, level |-> 128, hue |-> 0, saturation |-> 0,
     color_mode |-> 0, color_temp |-> 250, startup_on_off |-> 255,
     level_trans |-> ZeroTransition, hue_trans |-> ZeroTransition,
     sat_trans |-> ZeroTransition, ct_trans |-> ZeroTransition]

DefaultGeom(default_count) ==
    [n \in Segs |-> [start |-> 0,
                     count |-> IF n = 0 THEN default_count ELSE 0,
                     strip_id |-> 0]]

segment_manager_init_transitions(state) ==
    [n \in Segs |->
        [state[n] EXCEPT
            !.level_trans.current_value = state[n].level,
            !.hue_trans.current_value = state[n].hue,
            !.sat_trans.current_value = state[n].saturation,
            !.ct_trans.current_value = state[n].color_temp]]

\* segment_light_nvs_t: the fields without the transition_t members
NvsLight(st) ==
    [on |-> st.on, level |-> st.level, hue |-> st.hue,
     saturation |-> st.saturation, color_mode |-> st.color_mode,
     color_temp |-> st.color_temp, startup_on_off |-> st.startup_on_off]

\* segment_manager_save: both blobs are rewritten from memory
segment_manager_save(store, geom, state) ==
    [store EXCEPT !.seg_geom = geom,
                  !.seg_state = [n \in Segs |-> NvsLight(state[n])]]

\* sizeof(segment_light_nvs_t): the seven fields and one byte of padding
SizeofNvsLight == 1 + 1 + 2 + 1 + 1 + 2 + 1 + 1
\* sizeof of the segment_light_t of the firmware that wrote v1 blobs
SEGMENT_STATE_V1_SIZE == 12
DEFAULT_STARTUP_ON_OFF == 255
\* A "seg_state" blob: its size in bytes and its entries, records of the
\* current format or tuples of 12 bytes
SegStateBlob(entry_size, data) ==
    [sz |-> Cardinality(Segs) * entry_size, data |-> data]

\* The 12 bytes of one entry of a v1 blob, little-endian: the struct was
\* on, level, hue, saturation, color_mode, color_x, color_y, color_temp
V1Bytes(r) ==
    <<IF r.on THEN 1 ELSE 0, r.level, r.hue % 256, r.hue \div 256,
      r.saturation, r.color_mode, r.color_x % 256, r.color_x \div 256,
      r.color_y % 256, r.color_y \div 256,
      r.color_temp % 256, r.color_temp \div 256>>

\* memcpy(&s_state[i], p + i * 12, 12) and the default for startup_on_off:
\* the bytes land on the first 12 bytes of the present segment_light_t,
\* which are on, level, hue, saturation, color_mode, color_temp,
\* startup_on_off and three bytes of padding before level_trans
LoadV1Entry(st, bytes) ==
    [st EXCEPT !.on = (bytes[1] # 0),
               !.level = bytes[2],
               !.hue = bytes[3] + 256 * bytes[4],
               !.saturation = bytes[5],
               !.color_mode = bytes[6],
               !.color_temp = bytes[7] + 256 * bytes[8],
               !.startup_on_off = DEFAULT_STARTUP_ON_OFF]

\* segment_manager_load, the "seg_state" blob: s_state afterwards
segment_manager_load(blob, state) ==
    IF blob.sz = Cardinality(Segs) * SizeofNvsLight
    THEN [n \in Segs |->
            [state[n] EXCEPT !.on = blob.data[n].on,
                             !.level = blob.data[n].level,
                             !.hue = blob.data[n].hue,
                             !.saturation = blob.data[n].saturation,
                             !.color_mode = blob.data[n].color_mode,
                             !.color_temp = blob.data[n].color_temp,
                             !.startup_on_off = blob.data[n].startup_on_off]]
    ELSE IF blob.sz = Cardinality(Segs) * SEGMENT_STATE_V1_SIZE
    THEN [n \in Segs |-> LoadV1Entry(state[n], blob.data[n])]
    ELSE state

\* led_driver_init: zeroed pixel buffers of the configured lengths
led_driver_init(counts) ==
    [s \in Strips |->
        [count |-> counts[s + 1],
         pixel_buf |-> [i \in 0..(counts[s + 1] - 1) |-> ZeroPixel]]]

led_driver_get_count(strips, strip) ==
    IF strip \notin Strips THEN 0 ELSE strips[strip].count

led_driver_set_pixel(strips, strip, idx, px) ==
    IF strip \notin Strips THEN strips
    ELSE IF idx >= strips[strip].count THEN strips
    ELSE [strips EXCEPT ![strip].pixel_buf[idx] = px]

led_driver_clear(strips, strip) ==
    IF strip \notin Strips THEN strips
    ELSE [strips EXCEPT ![strip].pixel_buf =
             [i \in 0..(strips[strip].count - 1) |-> ZeroPixel]]

\* led_driver_refresh: every strip with count > 0 is encoded and transmitted
led_driver_refresh(sent, strips) ==
    [s \in Strips |->
        IF strips[s].count = 0 THEN sent[s] ELSE strips[s].pixel_buf]

(***************************************************************************)
(* update_leds (led_renderer)                                              *)
(***************************************************************************)
\* (variant: the segment is drawn from its settled fields)
SegmentPixel_settled(st) ==
    IF st.on
    THEN IF st.color_mode = 2
         THEN [r |-> 0, g |-> 0, b |-> 0, w |-> st.level]
         ELSE LET rgb == hsv_to_rgb(st.hue, st.saturation, st.level)
              IN  [r |-> rgb[1], g |-> rgb[2], b |-> rgb[3], w |-> 0]
    ELSE ZeroPixel

\* The r, g, b, w a segment is drawn with
SegmentPixel(st) ==
    IF st.on
    THEN LET level == U8(transition_get_value(st.level_trans))
             hue == transition_get_value(st.hue_trans)
             sat == U8(transition_get_value(st.sat_trans))
         IN  IF st.color_mode = 2
             THEN [r |-> 0, g |-> 0, b |-> 0, w |-> level]
             ELSE LET rgb == hsv_to_rgb(hue, sat, level)
                  IN  [r |-> rgb[1], g |-> rgb[2], b |-> rgb[3], w |-> 0]
    ELSE ZeroPixel

\* uint16_t end = geom[n].start + geom[n].count, clamped to the strip length
SegmentEnd(g, strip_len) ==
    LET end == U16(g.start + g.count)
    IN  IF end > strip_len THEN strip_len ELSE end

\* for (uint16_t i = ...; i < end; i++) led_driver_set_pixel(strip, i, ...)
RECURSIVE WritePixels(_, _, _, _, _)
WritePixels(strips, strip, i, end, px) ==
    IF i < end
    THEN WritePixels(led_driver_set_pixel(strips, strip, i, px),
                     strip, i + 1, end, px)
    ELSE strips

\* The body of the loop over the segments, for segment n
RenderSegment(strips, g, st) ==
    IF g.count = 0 THEN strips
    ELSE LET strip == g.strip_id
             strip_len == led_driver_get_count(strips, strip)
         IN  WritePixels(strips, strip, g.start, SegmentEnd(g, strip_len),
                         SegmentPixel(st))

\* The pixels led_driver_set_pixel stored for segment n, as <<strip, index>>
SegmentWrites(strips, g) ==
    IF g.count = 0 THEN {}
    ELSE LET strip_len == led_driver_get_count(strips, g.strip_id)
         IN  {<<g.strip_id, i>> :
                 i \in {j \in g.start..(SegmentEnd(g, strip_len) - 1) :
                           g.strip_id \in Strips /\ j < strip_len}}

RECURSIVE RenderSegments(_, _, _, _)
RenderSegments(strips, k, geom, state) ==
    IF k > Len(SegOrder) THEN strips
    ELSE RenderSegments(
             RenderSegment(strips, geom[SegOrder[k]], state[SegOrder[k]]),
             k + 1, geom, state)

\* update_leds up to led_driver_refresh: the strip buffers after composition
ComposeLeds(strips, geom, state) ==
    RenderSegments(led_driver_clear(led_driver_clear(strips, 0), 1),
                   1, geom, state)

(***************************************************************************)
(* Presets (preset_manager, preset_handler)                                *)
(***************************************************************************)
Slots == 0..(MAX_PRESET_SLOTS - 1)

\* memset(&s_slots[i], 0, sizeof(preset_slot_t))
ZeroLight ==
    [on |-> FALSE, level |-> 0, hue |-> 0, saturation |-> 0,
     color_mode |-> 0, color_temp |-> 0, startup_on_off |-> 0,
     level_trans |-> ZeroTransition, hue_trans |-> ZeroTransition,
     sat_trans |-> ZeroTransition, ct_trans |-> ZeroTransition]
\* An all-zero slot is kept without its (all-zero) segments
EmptySlot == [name_length |-> 0, segments |-> <<>>]
\* s_slots[slot].segments
SlotSegments(sl) ==
    IF sl.name_length = 0 THEN [n \in Segs |-> ZeroLight] ELSE sl.segments

\* strlen("Preset N"), the name given when the caller passes none
DefaultNameLength == Len("Preset N")

\* preset_manager_save with name == NULL: <<return value, s_slots afterwards>>.
\* The segments are copied whole, transition_t members included.
preset_manager_save(slots, slot, state) ==
    IF slot >= MAX_PRESET_SLOTS THEN <<ESP_ERR_INVALID_ARG, slots>>
    ELSE <<ESP_OK,
           [slots EXCEPT ![slot] = [name_length |-> DefaultNameLength,
                                    segments |-> state]]>>

\* (variant: an empty slot is recalled like an occupied one)
preset_manager_recall_no_empty_check(slots, slot, state) ==
    IF slot >= MAX_PRESET_SLOTS THEN <<ESP_ERR_INVALID_ARG, state>>
    ELSE <<ESP_OK,
           [n \in Segs |->
               [SlotSegments(slots[slot])[n] EXCEPT
                   !.startup_on_off = state[n].startup_on_off]]>>

\* (variant: the stored startup_on_off is recalled with the rest)
preset_manager_recall_whole_copy(slots, slot, state) ==
    IF slot >= MAX_PRESET_SLOTS THEN <<ESP_ERR_INVALID_ARG, state>>
    ELSE IF slots[slot].name_length = 0 THEN <<ESP_ERR_NOT_FOUND, state>>
    ELSE <<ESP_OK, SlotSegments(slots[slot])>>

\* preset_manager_recall: <<return value, s_state afterwards>>.  memcpy of
\* the stored segment_light_t over the live one, startup_on_off preserved.
preset_manager_recall(slots, slot, state) ==
    IF slot >= MAX_PRESET_SLOTS THEN <<ESP_ERR_INVALID_ARG, state>>
    ELSE IF slots[slot].name_length = 0 THEN <<ESP_ERR_NOT_FOUND, state>>
    ELSE <<ESP_OK,
           [n \in Segs |->
               [SlotSegments(slots[slot])[n] EXCEPT
                   !.startup_on_off = state[n].startup_on_off]]>>

\* (variant: the synchronisation is run on the spot)
schedule_zcl_sync_inline(alarms) ==
    [alarms |-> alarms, sync_ran |-> TRUE]

\* schedule_zcl_sync: esp_zb_scheduler_alarm(sync_zcl_deferred_cb, 0, 100).
\* sync_ran tells whether sync_zcl_from_state has run inside the call.  An
\* alarm that is pending already stays one alarm: the callback brings the
\* attribute store to the segment state, and running it twice changes
\* nothing further.
schedule_zcl_sync(alarms) ==
    [alarms |-> alarms \cup {"sync_zcl_deferred_cb"}, sync_ran |-> FALSE]

\* (variant: hue and saturation fade with the global transition time too)
StartRecalled_all_fade(state, ms, clock) ==
    [n \in Segs |->
        [state[n] EXCEPT
            !.level_trans = transition_start(@, state[n].level, ms, clock),
            !.hue_trans = transition_start(@, state[n].hue, ms, clock),
            !.sat_trans = transition_start(@, state[n].saturation, ms, clock),
            !.ct_trans = transition_start(@, state[n].color_temp, ms, clock)]]

\* The loop of handle_recall_slot_write over the segments
StartRecalled(state, ms, clock) ==
    [n \in Segs |->
        [state[n] EXCEPT
            !.level_trans = transition_start(@, state[n].level, ms, clock),
            !.hue_trans = transition_start(@, state[n].hue, 0, clock),
            !.sat_trans = transition_start(@, state[n].saturation, 0, clock),
            !.ct_trans = transition_start(@, state[n].color_temp, ms, clock)]]

\* timer_callback over the transitions of the segments, all of which
\* app_main registers
TickSegments(state, clock) ==
    [n \in Segs |->
        [state[n] EXCEPT
            !.level_trans = transition_tick(@, clock),
            !.hue_trans = transition_tick(@, clock),
            !.sat_trans = transition_tick(@, clock),
            !.ct_trans = transition_tick(@, clock)]]

(***************************************************************************)
(* State outside the engine when nothing of it is in use                   *)
(***************************************************************************)
\* out is the tuple of results of the call, empty while it has not returned
PENDING == <<>>
NoCalc == [fn |-> "none", args |-> <<>>, out |-> PENDING]

\* The FreeRTOS tasks that call update_leds: zb_main (render loop and
\* attribute handlers) and led_cli
Tasks == {"zb_main", "led_cli"}
TaskIdle == [pc |-> "idle", interleaved |-> FALSE]

\* (uint16_t)((uint32_t)state[n].hue * 65535 / 360)
DegreesToZclHue(hue) == U16(CDiv(U32(hue * 65535), 360))

\* sync_zcl_from_state: what esp_zb_zcl_set_attribute_val leaves in the
\* attribute store of the endpoint of each segment
sync_zcl_from_state(state) ==
    [n \in Segs |->
        [on |-> state[n].on,
         startup_on_off |-> state[n].startup_on_off,
         level |-> state[n].level,
         mode |-> state[n].color_mode,
         enh_hue |-> DegreesToZclHue(state[n].hue),
         sat |-> state[n].saturation,
         ct |-> state[n].color_temp]]

\* The attribute store before the stack has started
DefaultAttrs == sync_zcl_from_state([n \in Segs |-> DefaultLight])

\* No preset saved, the default smoothing time, no save pending, no task
\* inside update_leds
PresetsIdle ==
    /\ s_slots = [k \in Slots |-> EmptySlot]
    /\ g_global_transition_ms = 100
    /\ s_save_timer = FALSE
    /\ zb_alarms = {}
    /\ save_due = 0
    /\ zcl_attrs = DefaultAttrs
    /\ tasks = [c \in Tasks |-> TaskIdle]

\* s_strips before led_driver_init: no buffers
NoStrips == [s \in Strips |-> [count |-> 0, pixel_buf |-> <<>>]]

\* app_main after segment_manager_init and segment_manager_load from
\* factory defaults, before led_driver_init
DeviceIdle ==
    /\ s_geom = DefaultGeom(StripCounts[1])
    /\ s_state = [n \in Segs |-> DefaultLight]
    /\ s_strips = NoStrips
    /\ frame = [s \in Strips |-> s_strips[s].pixel_buf]
    /\ nvs = [seg_geom |-> s_geom,
              seg_state |-> [n \in Segs |-> NvsLight(s_state[n])],
              prst |-> [k \in Slots |-> EmptySlot]]
    /\ PresetsIdle

AppIdle ==
    /\ calc = NoCalc
    /\ DeviceIdle

\* The engine as app_main leaves it, for the parts of the firmware that are
\* modelled without it
EngineIdle ==
    /\ trans = [t \in TransIds |-> ZeroTransition]
    /\ settled = [t \in TransIds |-> 0]
    /\ s_registry = TransOrder
    /\ s_timer = TRUE
    /\ now = 0
    /\ pc = "run"

engine == <<trans, settled, s_registry, s_timer, now, pc>>
presets == <<s_slots, g_global_transition_ms, s_save_timer>>
zb == <<zb_alarms, save_due, zcl_attrs>>

(***************************************************************************)
(* Initial state: static storage is zero, segment_manager_init() and       *)
(* segment_manager_load() have filled the settled fields, app_main is      *)
(* about to initialise the engine.                                         *)
(***************************************************************************)
Init ==
    /\ trans = [t \in TransIds |-> ZeroTransition]
    /\ settled \in [TransIds -> SeedValues]
    /\ s_registry = <<>>
    /\ s_timer = FALSE
    /\ now = 0
    /\ pc = "engine_init"
    /\ last = NoOp
    /\ AppIdle

(***************************************************************************)
(* app_main                                                                *)
(***************************************************************************)
\* ESP_ERROR_CHECK(transition_engine_init(200)): esp_timer_create or
\* esp_timer_start_periodic may fail, which leaves s_timer NULL and aborts.
AppEngineInit ==
    /\ pc = "engine_init"
    /\ \E ok \in BOOLEAN :
          /\ s_timer' = (s_timer \/ ok)
          /\ pc' = IF s_timer \/ ok THEN "register" ELSE "abort"
          /\ last' = [Op("engine_init", NULL) EXCEPT
                        !.ret = IF s_timer \/ ok THEN ESP_OK ELSE ESP_FAIL]
    /\ UNCHANGED <<trans, settled, s_registry, now>>
    /\ UNCHANGED app

\* One ESP_ERROR_CHECK(transition_register(&state[i].x_trans)) of the loop
AppRegister ==
    /\ pc = "register"
    /\ LET n == Len(s_registry) + 1
           res == transition_register(s_registry, TransOrder[n])
       IN  /\ s_registry' = res[2]
           /\ last' = [Op("register", TransOrder[n]) EXCEPT !.ret = res[1]]
           /\ pc' = IF res[1] # ESP_OK THEN "abort"
                    ELSE IF n = Len(TransOrder) THEN "seed" ELSE "register"
    /\ UNCHANGED <<trans, settled, s_timer, now>>
    /\ UNCHANGED app

\* segment_manager_init_transitions()
InitTransitions ==
    /\ pc = "seed"
    /\ trans' = [t \in TransIds |->
                   [trans[t] EXCEPT !.current_value = settled[t]]]
    /\ pc' = "run"
    /\ last' = Op("seed", NULL)
    /\ UNCHANGED <<settled, s_registry, s_timer, now>>
    /\ UNCHANGED app

(***************************************************************************)
(* The engine's API as the command contexts call it once the device runs   *)
(***************************************************************************)
Register(r) ==
    /\ pc = "run"
    /\ LET res == transition_register(s_registry, r)
       IN  /\ s_registry' = res[2]
           /\ last' = [Op("register", r) EXCEPT !.ret = res[1]]
    /\ UNCHANGED <<trans, settled, s_timer, now, pc>>
    /\ UNCHANGED app

Start(r, target, duration_ms) ==
    /\ pc = "run"
    /\ now + U32(duration_ms * 1000) <= MaxTime
    /\ trans' = IF r = NULL THEN trans
                ELSE [trans EXCEPT
                        ![r] = transition_start(trans[r], target, duration_ms, now)]
    /\ last' = [Op("start", r) EXCEPT !.target = target, !.dur = duration_ms]
    /\ UNCHANGED <<settled, s_registry, s_timer, now, pc>>
    /\ UNCHANGED app

Cancel(r) ==
    /\ pc = "run"
    /\ trans' = IF r = NULL THEN trans
                ELSE [trans EXCEPT ![r] = transition_cancel(trans[r])]
    /\ last' = Op("cancel", r)
    /\ UNCHANGED <<settled, s_registry, s_timer, now, pc>>
    /\ UNCHANGED app

\* transition_tick called directly on one transition
Tick(r) ==
    /\ pc = "run"
    /\ LET after == IF r = NULL THEN trans
                    ELSE [trans EXCEPT ![r] = transition_tick(trans[r], now)]
       IN  /\ trans' = after
           /\ last' = [Op("tick", r) EXCEPT !.completed = CompletedBy(after)]
    /\ UNCHANGED <<settled, s_registry, s_timer, now, pc>>
    /\ UNCHANGED app

\* The periodic esp_timer fires
TimerCallback ==
    /\ s_timer
    /\ pc # "abort"
    /\ LET after == TickRegistry(s_registry, 1, trans, now)
       IN  /\ trans' = after
           /\ last' = [Op("timer", NULL) EXCEPT !.completed = CompletedBy(after)]
    /\ UNCHANGED <<settled, s_registry, s_timer, now, pc>>
    /\ UNCHANGED app

\* esp_timer_get_time() is monotonic
AdvanceClock ==
    /\ now + ClockStep <= MaxTime
    /\ now' = now + ClockStep
    /\ last' = Op("clock", NULL)
    /\ UNCHANGED <<trans, settled, s_registry, s_timer, pc>>
    /\ UNCHANGED app

Next ==
    \/ AppEngineInit
    \/ AppRegister
    \/ InitTransitions
    \/ \E r \in Refs : Register(r)
    \/ \E r \in Refs, target \in TargetValues :
          \E d \in DurationsOf(r) : Start(r, target, d)
    \/ \E r \in Refs : Cancel(r)
    \/ \E r \in Refs : Tick(r)
    \/ TimerCallback
    \/ AdvanceClock

Spec == Init /\ [][Next]_vars

\* The timer task and the clock keep running
SpecLive == Spec /\ WF_vars(TimerCallback) /\ WF_vars(AdvanceClock)

(***************************************************************************)
(* transition_tick as a function of the struct and of the clock reading:   *)
(* a transition that has just been started, ticked at arbitrary clock      *)
(* readings, earlier than its start time included.                         *)
(***************************************************************************)
TickValues == {0, 1, 254, 65535}
TickDurationsMs == {1, 2, 30}
TickStartTimes == {5000}
TickClocks == {0, 5000, 5001, 5500, 6000, 6999, 7000, 20000, 34999, 35000}

InitTick ==
    /\ \E s \in TickValues, g \in TickValues, d \in TickDurationsMs,
          st \in TickStartTimes :
          trans = [t \in TransIds |->
                     IF t = "level"
                     THEN transition_start(
                              transition_start(ZeroTransition, s, 0, 0),
                              g, d, st)
                     ELSE ZeroTransition]
    /\ settled = [t \in TransIds |-> 0]
    /\ s_registry = TransOrder
    /\ s_timer = TRUE
    /\ now \in TickClocks
    /\ pc = "run"
    /\ last = NoOp
    /\ AppIdle

\* esp_timer_get_time() returns c
SetClock(c) ==
    /\ now' = c
    /\ last' = Op("clock", NULL)
    /\ UNCHANGED <<trans, settled, s_registry, s_timer, pc>>
    /\ UNCHANGED app

NextTick ==
    \/ \E r \in Refs : Tick(r)
    \/ \E c \in TickClocks : SetClock(c)

SpecTick == InitTick /\ [][NextTick]_vars

(***************************************************************************)
(* start_hue_transition on a hue transition that is settled on a hue       *)
(***************************************************************************)
HueValues == {0, 10, 180, 350, 359}
HueDurationsMs == {2}

InitHue ==
    /\ \E h \in HueValues :
          trans = [t \in TransIds |->
                     IF t = "hue"
                     THEN transition_start(ZeroTransition, h, 0, 0)
                     ELSE ZeroTransition]
    /\ settled = [t \in TransIds |-> 0]
    /\ s_registry = TransOrder
    /\ s_timer = TRUE
    /\ now = 0
    /\ pc = "run"
    /\ last = NoOp
    /\ AppIdle

StartHue(target_hue, duration_ms) ==
    /\ pc = "run"
    /\ now + U32(duration_ms * 1000) <= MaxTime
    /\ trans' = [trans EXCEPT
                    !["hue"] = start_hue_transition(trans["hue"], target_hue,
                                                    duration_ms, now)]
    /\ last' = [Op("start_hue", "hue") EXCEPT
                  !.target = target_hue, !.dur = duration_ms]
    /\ UNCHANGED <<settled, s_registry, s_timer, now, pc>>
    /\ UNCHANGED app

NextHue ==
    \/ \E h \in HueValues, d \in HueDurationsMs : StartHue(h, d)
    \/ TimerCallback
    \/ AdvanceClock

SpecHue == InitHue /\ [][NextHue]_vars

(***************************************************************************)
(* Specification of the colour engine's pure helpers: one call each, on    *)
(* arguments drawn from the ranges their callers can produce.              *)
(***************************************************************************)
\* uint16_t hue_raw: plain degrees, shortest-arc results beyond 360, wrapped
\* negatives, and the edges of the int16_t cast
HueRaws == (0..800) \cup (32700..32800) \cup (65100..65535)
\* signed angles a shortest-arc transition can pass through, as stored
SignedAngles == (-180)..540
\* saturation and value samples (uint8_t)
SatValues == {0, 1, 127, 254, 255}
LevelValues == {0, 1, 128, 254, 255}
\* normalized hues
Degrees == 0..360

InitCalc ==
    /\ EngineIdle
    /\ last = NoOp
    /\ DeviceIdle
    /\ \/ \E raw \in HueRaws :
             calc = [fn |-> "normalize_hue", args |-> <<raw>>, out |-> PENDING]
       \/ \E a \in SignedAngles, s \in SatValues, v \in LevelValues :
             calc = [fn |-> "hsv_to_rgb", args |-> <<U16(a), s, v>>,
                     out |-> PENDING]
       \/ \E c \in Degrees, g \in Degrees :
             calc = [fn |-> "hue_shortest_arc", args |-> <<c, g>>,
                     out |-> PENDING]

CallNormalizeHue ==
    /\ calc.fn = "normalize_hue" /\ calc.out = PENDING
    /\ calc' = [calc EXCEPT !.out = <<normalize_hue(calc.args[1])>>]
    /\ last' = Op("normalize_hue", NULL)
    /\ UNCHANGED <<engine, zb, tasks, s_geom, s_state, s_strips, frame, nvs, presets>>

CallHsvToRgb ==
    /\ calc.fn = "hsv_to_rgb" /\ calc.out = PENDING
    /\ calc' = [calc EXCEPT
                  !.out = hsv_to_rgb(calc.args[1], calc.args[2], calc.args[3])]
    /\ last' = Op("hsv_to_rgb", NULL)
    /\ UNCHANGED <<engine, zb, tasks, s_geom, s_state, s_strips, frame, nvs, presets>>

CallHueShortestArc ==
    /\ calc.fn = "hue_shortest_arc" /\ calc.out = PENDING
    /\ calc' = [calc EXCEPT
                  !.out = <<hue_shortest_arc(calc.args[1], calc.args[2])>>]
    /\ last' = Op("hue_shortest_arc", NULL)
    /\ UNCHANGED <<engine, zb, tasks, s_geom, s_state, s_strips, frame, nvs, presets>>

NextCalc ==
    \/ CallNormalizeHue
    \/ CallHsvToRgb
    \/ CallHueShortestArc

SpecCalc == InitCalc /\ [][NextCalc]_vars

(***************************************************************************)
(* Specification of the renderer: update_leds on its own and at the end of *)
(* the segment-geometry attribute handler, the segments lit in distinct    *)
(* colours.                                                                *)
(***************************************************************************)
\* uint16_t values written to the start and count attributes
GeomStarts == {0, 1}
GeomCounts == {0, 2, 65535}
\* uint8_t values written to the strip attribute (strip number, from 1)
GeomStripValues == {1, 2}
\* level, hue and colour mode the segments are lit with
RenderLevels == <<40, 80, 120>>
RenderHues == <<0, 120, 240>>
RenderModes == <<0, 2, 0>>

RenderLight(n, on) ==
    [DefaultLight EXCEPT !.on = on,
                         !.level = RenderLevels[n + 1],
                         !.hue = RenderHues[n + 1],
                         !.saturation = 254,
                         !.color_mode = RenderModes[n + 1]]

InitRender ==
    /\ EngineIdle
    /\ last = NoOp
    /\ calc = NoCalc
    /\ s_geom = DefaultGeom(StripCounts[1])
    /\ \E on \in [Segs -> BOOLEAN] :
          s_state = segment_manager_init_transitions(
                        [n \in Segs |-> RenderLight(n, on[n])])
    /\ s_strips = led_driver_init(StripCounts)
    /\ frame = [s \in Strips |-> s_strips[s].pixel_buf]
    /\ nvs = [seg_geom |-> s_geom,
              seg_state |-> [n \in Segs |-> NvsLight(s_state[n])],
              prst |-> [k \in Slots |-> EmptySlot]]
    /\ PresetsIdle

\* What one pass of update_leds stored, segment by segment
PassWrites(strips, geom) == [n \in Segs |-> SegmentWrites(strips, geom[n])]

\* restore_leds_cb: update_leds()
RestoreLeds ==
    /\ s_strips' = ComposeLeds(s_strips, s_geom, s_state)
    /\ frame' = led_driver_refresh(frame, s_strips')
    /\ last' = Op("update_leds", NULL)
                  @@ [written |-> PassWrites(s_strips, s_geom)]
    /\ UNCHANGED <<engine, zb, tasks, calc, s_geom, s_state, nvs, presets>>

\* The attribute handler for cluster ZB_CLUSTER_SEGMENT_CONFIG: one field of
\* one segment is written, then segment_manager_save() and update_leds()
GeomWrite(n, field, value) ==
    /\ s_geom' = [s_geom EXCEPT ![n] =
                    CASE field = 0 -> [@ EXCEPT !.start = value]
                      [] field = 1 -> [@ EXCEPT !.count = value]
                      [] OTHER -> [@ EXCEPT !.strip_id =
                                      IF value >= 2 THEN 1 ELSE 0]]
    /\ nvs' = segment_manager_save(nvs, s_geom', s_state)
    /\ s_strips' = ComposeLeds(s_strips, s_geom', s_state)
    /\ frame' = led_driver_refresh(frame, s_strips')
    /\ last' = Op("geom_write", NULL)
                  @@ [written |-> PassWrites(s_strips, s_geom')]
    /\ UNCHANGED <<engine, zb, tasks, calc, s_state, presets>>

NextRender ==
    \/ RestoreLeds
    \/ \E n \in Segs, v \in GeomStarts : GeomWrite(n, 0, v)
    \/ \E n \in Segs, v \in GeomCounts : GeomWrite(n, 1, v)
    \/ \E n \in Segs, v \in GeomStripValues : GeomWrite(n, 2, v)

SpecRender == InitRender /\ [][NextRender]_vars

(***************************************************************************)
(* Specification of preset save and recall through the Zigbee attribute    *)
(* handler, with segment 0 dimmed and re-tinted in between and the         *)
(* engine's timer ticking the segments' transitions.                       *)
(***************************************************************************)
\* uint8_t values written to the save_slot and recall_slot attributes
SaveSlotArgs == {0, 8}
RecallSlotArgs == {0, 7, 8}
\* the segment whose attributes are written, and the values written
PresetSegs == {0}
PresetLevels == {200}
PresetColorTemps == {400}
\* global transition time (ms)
PresetTransitionMs == {0, 2}

InitPreset ==
    /\ trans = [t \in TransIds |-> ZeroTransition]
    /\ settled = [t \in TransIds |-> 0]
    /\ s_registry = TransOrder
    /\ s_timer = TRUE
    /\ now = 0
    /\ pc = "run"
    /\ last = NoOp
    /\ calc = NoCalc
    /\ s_geom = DefaultGeom(StripCounts[1])
    /\ s_state = segment_manager_init_transitions(
                     [n \in Segs |-> [DefaultLight EXCEPT !.on = TRUE]])
    /\ s_strips = led_driver_init(StripCounts)
    /\ frame = [s \in Strips |-> s_strips[s].pixel_buf]
    /\ nvs = [seg_geom |-> s_geom,
              seg_state |-> [n \in Segs |-> NvsLight(s_state[n])],
              prst |-> [k \in Slots |-> EmptySlot]]
    /\ s_slots = [k \in Slots |-> EmptySlot]
    /\ g_global_transition_ms \in PresetTransitionMs
    /\ s_save_timer = FALSE
    /\ zb_alarms = {}
    /\ save_due = 0
    /\ zcl_attrs = DefaultAttrs
    /\ tasks = [c \in Tasks |-> TaskIdle]

\* handle_set_attr_value, CurrentLevel of a segment endpoint
LevelWrite(n, value) ==
    /\ now + U32(g_global_transition_ms * 1000) <= MaxTime
    /\ s_state' = [s_state EXCEPT
                     ![n].level = value,
                     ![n].level_trans =
                         transition_start(@, value, g_global_transition_ms, now)]
    /\ s_strips' = ComposeLeds(s_strips, s_geom, s_state')
    /\ frame' = led_driver_refresh(frame, s_strips')
    /\ s_save_timer' = TRUE
    /\ last' = Op("level_write", NULL)
    /\ UNCHANGED <<engine, zb, tasks, calc, s_geom, nvs, s_slots, g_global_transition_ms>>

\* handle_set_attr_value, ColorTemperature of a segment endpoint
ColorTempWrite(n, value) ==
    /\ now + U32(g_global_transition_ms * 1000) <= MaxTime
    /\ s_state' = [s_state EXCEPT
                     ![n].color_temp = value,
                     ![n].color_mode = 2,
                     ![n].ct_trans =
                         transition_start(@, value, g_global_transition_ms, now)]
    /\ s_strips' = ComposeLeds(s_strips, s_geom, s_state')
    /\ frame' = led_driver_refresh(frame, s_strips')
    /\ s_save_timer' = TRUE
    /\ last' = Op("ct_write", NULL)
    /\ UNCHANGED <<engine, zb, tasks, calc, s_geom, nvs, s_slots, g_global_transition_ms>>

\* handle_save_slot_write with no pending save name
HandleSaveSlotWrite(slot) ==
    /\ IF slot > 7
       THEN /\ last' = [Op("save_slot", NULL) EXCEPT !.ret = ESP_ERR_INVALID_ARG]
            /\ UNCHANGED <<s_slots, nvs>>
       ELSE LET res == preset_manager_save(s_slots, slot, s_state)
            IN  /\ s_slots' = res[2]
                /\ nvs' = [nvs EXCEPT !.prst[slot] = res[2][slot]]
                /\ last' = [Op("save_slot", NULL) EXCEPT !.ret = res[1]]
    /\ UNCHANGED <<engine, zb, tasks, calc, s_geom, s_state, s_strips, frame,
                   g_global_transition_ms, s_save_timer, tasks>>

\* handle_recall_slot_write
HandleRecallSlotWrite(slot) ==
    /\ now + U32(g_global_transition_ms * 1000) <= MaxTime
    /\ IF slot > 7
       THEN /\ last' = [Op("recall_slot", NULL) EXCEPT
                          !.target = slot, !.ret = ESP_ERR_INVALID_ARG]
                            @@ [sync_ran |-> FALSE]
            /\ UNCHANGED <<s_state, s_save_timer, zb_alarms>>
       ELSE LET res == preset_manager_recall(s_slots, slot, s_state)
                z == schedule_zcl_sync(zb_alarms)
            IN  /\ last' = [Op("recall_slot", NULL) EXCEPT
                              !.target = slot, !.ret = res[1]]
                                @@ [sync_ran |-> res[1] = ESP_OK /\ z.sync_ran]
                /\ IF res[1] = ESP_OK
                   THEN /\ s_state' = StartRecalled(res[2],
                                          g_global_transition_ms, now)
                        /\ s_save_timer' = TRUE
                        /\ zb_alarms' = z.alarms
                   ELSE UNCHANGED <<s_state, s_save_timer, zb_alarms>>
    /\ UNCHANGED <<engine, save_due, zcl_attrs, tasks, calc, s_geom,
                   s_strips, frame, nvs,
                   s_slots, g_global_transition_ms>>

\* timer_callback of the engine, on the segments' transitions
SegmentsTimerCallback ==
    /\ s_state' = TickSegments(s_state, now)
    /\ last' = Op("timer", NULL)
    /\ UNCHANGED <<engine, zb, tasks, calc, s_geom, s_strips, frame, nvs, presets>>

NextPreset ==
    \/ \E n \in PresetSegs, v \in PresetLevels : LevelWrite(n, v)
    \/ \E n \in PresetSegs, v \in PresetColorTemps : ColorTempWrite(n, v)
    \/ \E slot \in SaveSlotArgs : HandleSaveSlotWrite(slot)
    \/ \E slot \in RecallSlotArgs : HandleRecallSlotWrite(slot)
    \/ SegmentsTimerCallback
    \/ AdvanceClock

SpecPreset == InitPreset /\ [][NextPreset]_vars

(***************************************************************************)
(* Specification of the tasks that compose and flush the strip buffers.    *)
(* zb_main runs led_render_cb; led_cli runs the console commands           *)
(* "preset save" and "preset apply", the latter calling update_leds()      *)
(* itself.  The tasks have the same priority and share no lock, so a task  *)
(* can be preempted between any two calls into the driver: update_leds is  *)
(* taken in three steps (clear, compose, refresh).                         *)
(***************************************************************************)
\* slots named on the console (atoi result, 0..7 accepted)
CliSlots == {0, 1}
\* on/off values written to segment 0's OnOff attribute
OnOffValues == {FALSE, TRUE}

InitTasks ==
    /\ EngineIdle
    /\ last = NoOp
    /\ calc = NoCalc
    /\ s_geom = DefaultGeom(StripCounts[1])
    /\ s_state = segment_manager_init_transitions(
                     [n \in Segs |-> [DefaultLight EXCEPT !.on = TRUE]])
    /\ s_strips = led_driver_init(StripCounts)
    /\ frame = [s \in Strips |-> s_strips[s].pixel_buf]
    /\ nvs = [seg_geom |-> s_geom,
              seg_state |-> [n \in Segs |-> NvsLight(s_state[n])],
              prst |-> [k \in Slots |-> EmptySlot]]
    /\ s_slots = [k \in Slots |-> EmptySlot]
    /\ g_global_transition_ms = 100
    /\ s_save_timer = FALSE
    /\ tasks = [c \in Tasks |-> TaskIdle]
    /\ zb_alarms = {"led_render_cb"}
    /\ save_due = 0
    /\ zcl_attrs = DefaultAttrs

\* Task c has called into the driver: every other task that is inside
\* update_leds has had its pass interleaved
Touch(c, pc_after) ==
    [d \in Tasks |->
        IF d = c
        THEN [pc |-> pc_after,
              interleaved |-> IF tasks[c].pc = "idle" \/ pc_after = "idle"
                              THEN FALSE
                              ELSE tasks[c].interleaved]
        ELSE IF tasks[d].pc = "idle" THEN tasks[d]
        ELSE [tasks[d] EXCEPT !.interleaved = TRUE]]

ClearStrips(strips) == led_driver_clear(led_driver_clear(strips, 0), 1)

\* led_render_cb on zb_main, up to the two led_driver_clear calls of
\* update_leds (the attributes it polls hold what s_state holds)
LedRenderCb ==
    /\ tasks["zb_main"].pc = "idle"
    /\ "led_render_cb" \in zb_alarms
    /\ zb_alarms' = zb_alarms \ {"led_render_cb"}
    /\ s_strips' = ClearStrips(s_strips)
    /\ tasks' = Touch("zb_main", "compose")
    /\ last' = Op("led_driver_clear", NULL)
    /\ UNCHANGED <<engine, save_due, zcl_attrs, calc, s_geom, s_state, frame,
                   nvs,
                   s_slots, g_global_transition_ms, s_save_timer>>

\* handle_set_attr_value for OnOff on zb_main, up to the clear of update_leds
OnOffWrite(n, value) ==
    /\ tasks["zb_main"].pc = "idle"
    /\ s_state' = [s_state EXCEPT
                     ![n].on = value,
                     ![n].level_trans =
                         transition_start(@, s_state[n].level, 0, now)]
    /\ s_strips' = ClearStrips(s_strips)
    /\ tasks' = Touch("zb_main", "compose_save")
    /\ last' = Op("on_off_write", NULL)
    /\ UNCHANGED <<engine, zb, calc, s_geom, frame, nvs, s_slots,
                   g_global_transition_ms, s_save_timer>>

\* "led preset save <slot>" on led_cli
CliPresetSave(slot) ==
    /\ tasks["led_cli"].pc = "idle"
    /\ LET res == preset_manager_save(s_slots, slot, s_state)
       IN  /\ s_slots' = res[2]
           /\ nvs' = [nvs EXCEPT !.prst[slot] = res[2][slot]]
           /\ last' = [Op("cli_preset_save", NULL) EXCEPT !.ret = res[1]]
    /\ UNCHANGED <<engine, zb, calc, s_geom, s_state, s_strips, frame,
                   g_global_transition_ms, s_save_timer, tasks>>

\* "led preset apply <slot>" on led_cli, up to the clear of update_leds
CliPresetApply(slot) ==
    /\ tasks["led_cli"].pc = "idle"
    /\ LET res == preset_manager_recall(s_slots, slot, s_state)
       IN  /\ last' = [Op("cli_preset_apply", NULL) EXCEPT !.ret = res[1]]
           /\ s_state' = res[2]
           /\ IF res[1] = ESP_OK
              THEN /\ s_strips' = ClearStrips(s_strips)
                   /\ tasks' = Touch("led_cli", "compose_save")
              ELSE UNCHANGED <<s_strips, tasks>>
    /\ UNCHANGED <<engine, zb, calc, s_geom, frame, nvs, s_slots,
                   g_global_transition_ms, s_save_timer>>

\* update_leds, the loop over the segments
Compose(c) ==
    /\ tasks[c].pc \in {"compose", "compose_save"}
    /\ s_strips' = RenderSegments(s_strips, 1, s_geom, s_state)
    /\ tasks' = Touch(c, IF tasks[c].pc = "compose" THEN "refresh"
                         ELSE "refresh_save")
    /\ last' = Op("led_driver_set_pixel", NULL)
    /\ UNCHANGED <<engine, zb, calc, s_geom, s_state, frame, nvs, presets>>

\* update_leds, led_driver_refresh(), and what the caller does after
\* update_leds returns: the alarm for the next pass in led_render_cb,
\* schedule_save() in the attribute handler, schedule_save() and
\* schedule_zcl_sync() in the console command
Refresh(c) ==
    /\ tasks[c].pc \in {"refresh", "refresh_save"}
    /\ frame' = led_driver_refresh(frame, s_strips)
    /\ s_save_timer' = (s_save_timer \/ tasks[c].pc = "refresh_save")
    /\ zb_alarms' = IF tasks[c].pc = "refresh"
                    THEN zb_alarms \cup {"led_render_cb"}
                    ELSE IF c = "led_cli"
                    THEN schedule_zcl_sync(zb_alarms).alarms
                    ELSE zb_alarms
    /\ tasks' = Touch(c, "idle")
    /\ last' = Op("led_driver_refresh", NULL)
                  @@ [task |-> c, interleaved |-> tasks[c].interleaved]
    /\ UNCHANGED <<engine, save_due, zcl_attrs, calc, s_geom, s_state,
                   s_strips, nvs,
                   s_slots, g_global_transition_ms>>

NextTasks ==
    \/ LedRenderCb
    \/ \E v \in OnOffValues : OnOffWrite(0, v)
    \/ \E slot \in CliSlots : CliPresetSave(slot)
    \/ \E slot \in CliSlots : CliPresetApply(slot)
    \/ \E c \in Tasks : Compose(c)
    \/ \E c \in Tasks : Refresh(c)

SpecTasks == InitTasks /\ [][NextTasks]_vars

(***************************************************************************)
(* Specification of transition_register on its own, with enough distinct   *)
(* transition_t objects to fill the registry.  Pointers carry no meaning   *)
(* beyond their identity, so the k-th object ever registered is named k.   *)
(***************************************************************************)
RegRef(k) == ToString(k)

InitRegistry ==
    /\ trans = [t \in TransIds |-> ZeroTransition]
    /\ settled = [t \in TransIds |-> 0]
    /\ s_registry = <<>>
    /\ s_timer = TRUE
    /\ now = 0
    /\ pc = "run"
    /\ last = NoOp
    /\ AppIdle

\* transition_register(t) with t NULL, registered already, or new
RegisterRef(r) ==
    /\ LET res == transition_register(s_registry, r)
       IN  /\ s_registry' = res[2]
           /\ last' = [NoOp EXCEPT !.op = "register", !.t = r, !.ret = res[1]]
    /\ UNCHANGED <<trans, settled, s_timer, now, pc>>
    /\ UNCHANGED app

NextRegistry ==
    \/ RegisterRef(NULL)
    \/ \E k \in 1..Len(s_registry) : RegisterRef(s_registry[k])
    \/ RegisterRef(RegRef(Len(s_registry) + 1))

SpecRegistry == InitRegistry /\ [][NextRegistry]_vars

(***************************************************************************)
(* Specification of a caller that carries on with a transition_t the full  *)
(* registry has turned away: the registry holds 64 references, "hue" among *)
(* them, and "level" is the reference that finds no room.                  *)
(***************************************************************************)
FillRefs == {RegRef(k) : k \in 1..(TRANSITION_REGISTRY_MAX - 1)}
FullRegistry == [k \in 1..TRANSITION_REGISTRY_MAX |->
                    IF k = TRANSITION_REGISTRY_MAX THEN "hue" ELSE RegRef(k)]

InitFull ==
    /\ trans = [t \in TransIds \cup FillRefs |-> ZeroTransition]
    /\ settled = [t \in TransIds |-> 0]
    /\ s_registry = FullRegistry
    /\ s_timer = TRUE
    /\ now = 0
    /\ pc = "register"
    /\ last = NoOp
    /\ AppIdle

\* transition_register(&level) whose result the caller does not check
RegisterUnchecked ==
    /\ pc = "register"
    /\ LET res == transition_register(s_registry, "level")
       IN  /\ s_registry' = res[2]
           /\ last' = [Op("register", "level") EXCEPT !.ret = res[1]]
    /\ pc' = "run"
    /\ UNCHANGED <<trans, settled, s_timer, now>>
    /\ UNCHANGED app

NextFull ==
    \/ RegisterUnchecked
    \/ \E r \in TransIds, target \in TargetValues, d \in DurationsMs :
          Start(r, target, d)
    \/ TimerCallback
    \/ AdvanceClock

SpecFull == InitFull /\ [][NextFull]_vars

(***************************************************************************)
(* Specification of the commands to one segment endpoint: the attribute    *)
(* handler (handle_set_attr_value) for OnOff, CurrentLevel, enhanced hue,  *)
(* saturation and colour temperature, and the render loop (led_render_cb), *)
(* which polls the attribute store because the stack serves some commands  *)
(* without a callback.  The attribute store belongs to the stack: what the *)
(* poll reads is an input.  The engine's timer ticks the transitions of    *)
(* the segments.                                                           *)
(***************************************************************************)
\* the values written to the attributes of the endpoint
AttrHues == {21845}
AttrSats == {254}
\* what the poll finds in the attribute store of the endpoint: nothing new,
\* a new colour, a new level and colour temperature in white mode
PollReads ==
    {[mode |-> 0, level |-> 128, enh_hue |-> 0, sat |-> 0, ct |-> 250],
     [mode |-> 0, level |-> 128, enh_hue |-> 21845, sat |-> 254, ct |-> 250],
     [mode |-> 2, level |-> 200, enh_hue |-> 0, sat |-> 0, ct |-> 400]}

\* (uint16_t)((uint32_t)enh_hue * 360 / 65535)
ZclHueToDegrees(enh_hue) == U16(CDiv(U32(enh_hue * 360), 65535))

\* The body of the loop of led_render_cb for one segment, a being what
\* esp_zb_zcl_get_attribute returns for its endpoint
PollSegment(st, a, ms, clock) ==
    LET s1 == IF a.level # st.level
              THEN [st EXCEPT !.level = a.level,
                              !.level_trans =
                                  transition_start(@, a.level, ms, clock)]
              ELSE st
        new_hue == ZclHueToDegrees(a.enh_hue)
        s2 == IF a.mode = 0 /\ new_hue # s1.hue
              THEN [s1 EXCEPT !.hue = new_hue, !.color_mode = 0,
                              !.hue_trans =
                                  transition_start(@, new_hue, 0, clock)]
              ELSE s1
        s3 == IF a.mode = 0 /\ a.sat # s2.saturation
              THEN [s2 EXCEPT !.saturation = a.sat,
                              !.sat_trans =
                                  transition_start(@, a.sat, 0, clock)]
              ELSE s2
    IN  IF a.mode = 2 /\ a.ct # s3.color_temp
        THEN [s3 EXCEPT !.color_temp = a.ct, !.color_mode = 2,
                        !.ct_trans = transition_start(@, a.ct, ms, clock)]
        ELSE s3

\* The device has been running, with nothing to do, long enough for
\* one fade to fit before the clock reaches its bound
InitAttr ==
    /\ trans = [t \in TransIds |-> ZeroTransition]
    /\ settled = [t \in TransIds |-> 0]
    /\ s_registry = TransOrder
    /\ s_timer = TRUE
    /\ now = MaxTime - 2 * ClockStep
    /\ pc = "run"
    /\ last = NoOp
    /\ calc = NoCalc
    /\ s_geom = DefaultGeom(StripCounts[1])
    /\ s_state = segment_manager_init_transitions(
                     [n \in Segs |-> [DefaultLight EXCEPT !.on = TRUE]])
    /\ s_strips = led_driver_init(StripCounts)
    /\ frame = [s \in Strips |-> s_strips[s].pixel_buf]
    /\ nvs = [seg_geom |-> s_geom,
              seg_state |-> [n \in Segs |-> NvsLight(s_state[n])],
              prst |-> [k \in Slots |-> EmptySlot]]
    /\ s_slots = [k \in Slots |-> EmptySlot]
    /\ g_global_transition_ms \in PresetTransitionMs
    /\ s_save_timer = FALSE
    /\ tasks = [c \in Tasks |-> TaskIdle]
    /\ zb_alarms = {"led_render_cb"}
    /\ save_due = 0
    /\ zcl_attrs = DefaultAttrs

\* (variant: the OnOff write leaves the level transition as it is)
HandleOnOffWrite_no_snap(n, value) ==
    /\ s_state' = [s_state EXCEPT ![n].on = value]
    /\ s_strips' = ComposeLeds(s_strips, s_geom, s_state')
    /\ frame' = led_driver_refresh(frame, s_strips')
    /\ s_save_timer' = TRUE
    /\ last' = [NoOp EXCEPT !.op = "on_off_write", !.target = n,
                  !.prev_active = s_state[n].level_trans.active,
                  !.prev_value = transition_get_value(s_state[n].level_trans)]
    /\ UNCHANGED <<engine, zb, tasks, calc, s_geom, nvs, s_slots,
                   g_global_transition_ms>>

\* handle_set_attr_value, OnOff of a segment endpoint
HandleOnOffWrite(n, value) ==
    /\ s_state' = [s_state EXCEPT
                     ![n].on = value,
                     ![n].level_trans =
                         transition_start(@, s_state[n].level, 0, now)]
    /\ s_strips' = ComposeLeds(s_strips, s_geom, s_state')
    /\ frame' = led_driver_refresh(frame, s_strips')
    /\ s_save_timer' = TRUE
    /\ last' = [NoOp EXCEPT !.op = "on_off_write", !.target = n,
                  !.prev_active = s_state[n].level_trans.active,
                  !.prev_value = transition_get_value(s_state[n].level_trans)]
    /\ UNCHANGED <<engine, zb, tasks, calc, s_geom, nvs, s_slots,
                   g_global_transition_ms>>

\* handle_set_attr_value, EnhancedCurrentHue of a segment endpoint: neither
\* update_leds nor schedule_save follows
HueWrite(n, enh_hue) ==
    /\ s_state' = [s_state EXCEPT
                     ![n].hue = ZclHueToDegrees(enh_hue),
                     ![n].color_mode = 0,
                     ![n].hue_trans =
                         transition_start(@, ZclHueToDegrees(enh_hue), 0, now)]
    /\ last' = [NoOp EXCEPT !.op = "hue_write", !.target = n]
    /\ UNCHANGED <<engine, zb, tasks, calc, s_geom, s_strips, frame, nvs,
                   presets>>

\* handle_set_attr_value, CurrentSaturation of a segment endpoint
SatWrite(n, value) ==
    /\ s_state' = [s_state EXCEPT
                     ![n].saturation = value,
                     ![n].sat_trans = transition_start(@, value, 0, now)]
    /\ last' = [NoOp EXCEPT !.op = "sat_write", !.target = n]
    /\ UNCHANGED <<engine, zb, tasks, calc, s_geom, s_strips, frame, nvs,
                   presets>>

\* led_render_cb: the poll of the endpoints (segment 0 reads a, the others
\* read what s_state holds), update_leds, and the alarm for the next pass
LedRenderPoll(a) ==
    /\ "led_render_cb" \in zb_alarms
    /\ \/ now + U32(g_global_transition_ms * 1000) <= MaxTime
       \/ PollSegment(s_state[0], a, g_global_transition_ms, now) = s_state[0]
    /\ s_state' = [s_state EXCEPT
                     ![0] = PollSegment(@, a, g_global_transition_ms, now)]
    /\ s_strips' = ComposeLeds(s_strips, s_geom, s_state')
    /\ frame' = led_driver_refresh(frame, s_strips')
    /\ zb_alarms' = (zb_alarms \ {"led_render_cb"}) \cup {"led_render_cb"}
    /\ last' = [NoOp EXCEPT !.op = "led_render_cb"]
    /\ UNCHANGED <<engine, save_due, zcl_attrs, tasks, calc, s_geom, nvs,
                   presets>>

NextAttr ==
    \/ \E v \in OnOffValues : HandleOnOffWrite(0, v)
    \/ \E v \in PresetLevels : LevelWrite(0, v)
    \/ \E v \in AttrHues : HueWrite(0, v)
    \/ \E v \in AttrSats : SatWrite(0, v)
    \/ \E v \in PresetColorTemps : ColorTempWrite(0, v)
    \/ \E a \in PollReads : LedRenderPoll(a)
    \/ SegmentsTimerCallback
    \/ AdvanceClock

SpecAttr == InitAttr /\ [][NextAttr]_vars

(***************************************************************************)
(* Specification of every path that starts the transitions of a segment:   *)
(* the attribute handler, the poll of the render loop and the recall of a  *)
(* preset.                                                                 *)
(***************************************************************************)
NextColor ==
    \/ \E v \in PresetLevels : LevelWrite(0, v)
    \/ \E v \in AttrHues : HueWrite(0, v)
    \/ \E v \in AttrSats : SatWrite(0, v)
    \/ \E v \in PresetColorTemps : ColorTempWrite(0, v)
    \/ \E a \in PollReads : LedRenderPoll(a)
    \/ HandleSaveSlotWrite(0)
    \/ HandleRecallSlotWrite(0)
    \/ SegmentsTimerCallback
    \/ AdvanceClock

SpecColor == InitAttr /\ [][NextColor]_vars

(***************************************************************************)
(* Specification of the debounced save: schedule_save() restarts the       *)
(* one-shot timer "cfg_save", whose callback save_timer_cb calls           *)
(* segment_manager_save().  The caller here is the attribute handler for   *)
(* StartUpOnOff, which changes the segment state and calls schedule_save() *)
(* and nothing else.  Timer callbacks run on the esp_timer task, which has *)
(* priority over the Zigbee task: once the timer has expired nothing else  *)
(* runs before its callback.  Time advances in steps and stops at the      *)
(* expiry of the timer.                                                    *)
(***************************************************************************)
SaveClockStep == 200000
SaveMaxTime == 1600000
\* esp_timer_start_once(s_save_timer, 500 * 1000)
SAVE_DEBOUNCE_US == 500 * 1000
StartupOnOffValues == {0, 1}

\* (variant: a timer that is armed already is left to run)
schedule_save_no_restart(armed, due, clock) ==
    IF armed THEN due ELSE clock + SAVE_DEBOUNCE_US

\* schedule_save: esp_timer_stop, then esp_timer_start_once; the expiry time
\* of s_save_timer afterwards
schedule_save(armed, due, clock) == clock + SAVE_DEBOUNCE_US

SaveTimerExpired == s_save_timer /\ now >= save_due

InitSave ==
    /\ EngineIdle
    /\ last = NoOp
    /\ AppIdle

\* handle_set_attr_value, StartUpOnOff of a segment endpoint
StartupOnOffWrite(n, value) ==
    /\ ~SaveTimerExpired
    /\ now + SAVE_DEBOUNCE_US <= SaveMaxTime
    /\ s_state' = [s_state EXCEPT ![n].startup_on_off = value]
    /\ s_save_timer' = TRUE
    /\ save_due' = schedule_save(s_save_timer, save_due, now)
    /\ last' = [NoOp EXCEPT !.op = "startup_on_off_write", !.target = n]
    /\ UNCHANGED <<engine, zb_alarms, zcl_attrs, tasks, calc, s_geom,
                   s_strips, frame,
                   nvs, s_slots, g_global_transition_ms>>

\* save_timer_cb: segment_manager_save(), which logs and gives up when the
\* store cannot be opened
SaveTimerCb ==
    /\ SaveTimerExpired
    /\ \E ok \in BOOLEAN :
          /\ nvs' = IF ok THEN segment_manager_save(nvs, s_geom, s_state)
                    ELSE nvs
          /\ last' = [NoOp EXCEPT !.op = "save_timer_cb",
                                  !.ret = IF ok THEN ESP_OK ELSE ESP_FAIL]
    /\ s_save_timer' = FALSE
    /\ UNCHANGED <<engine, zb, tasks, calc, s_geom, s_state, s_strips, frame,
                   s_slots, g_global_transition_ms>>

\* esp_timer_get_time() moves on, up to the expiry of the timer
AdvanceSaveClock ==
    /\ ~SaveTimerExpired
    /\ now' = IF s_save_timer /\ save_due < now + SaveClockStep
              THEN save_due ELSE now + SaveClockStep
    /\ now' <= SaveMaxTime
    /\ last' = [NoOp EXCEPT !.op = "clock"]
    /\ UNCHANGED <<trans, settled, s_registry, s_timer, pc>>
    /\ UNCHANGED app

NextSave ==
    \/ \E n \in Segs, v \in StartupOnOffValues : StartupOnOffWrite(n, v)
    \/ SaveTimerCb
    \/ AdvanceSaveClock

SpecSave == InitSave /\ [][NextSave]_vars

\* The esp_timer task and the clock keep running
SpecSaveLive == SpecSave /\ WF_vars(SaveTimerCb) /\ WF_vars(AdvanceSaveClock)

(***************************************************************************)
(* Specification of segment_manager_load on a "seg_state" blob written by  *)
(* the firmware whose segment_light_t had 12 bytes (v1): the entry of      *)
(* segment 0 is drawn, the other entries hold that firmware's defaults.    *)
(***************************************************************************)
V1Records ==
    [on : BOOLEAN, level : {0, 200}, hue : {0, 300}, saturation : {0, 254},
     color_mode : {0, 1, 2}, color_x : {24939}, color_y : {24701},
     color_temp : {250, 400}]
V1Default ==
    [on |-> FALSE, level |-> 128, hue |-> 0, saturation |-> 0,
     color_mode |-> 0, color_x |-> 24939, color_y |-> 24701,
     color_temp |-> 250]

InitLoad ==
    /\ EngineIdle
    /\ last = NoOp
    /\ DeviceIdle
    /\ \E r \in V1Records :
          calc = [fn |-> "segment_manager_load", args |-> <<r>>,
                  out |-> PENDING]

\* segment_manager_init(), then segment_manager_load() finding the v1 blob
CallSegmentManagerLoad ==
    /\ calc.fn = "segment_manager_load"
    /\ calc.out = PENDING
    /\ LET blob == SegStateBlob(SEGMENT_STATE_V1_SIZE,
                       [n \in Segs |-> V1Bytes(IF n = 0 THEN calc.args[1]
                                               ELSE V1Default)])
       IN  calc' = [calc EXCEPT
                      !.out = <<segment_manager_load(
                                    blob, [n \in Segs |-> DefaultLight])[0]>>]
    /\ last' = [NoOp EXCEPT !.op = "segment_manager_load"]
    /\ UNCHANGED <<engine, zb, tasks, s_geom, s_state, s_strips, frame, nvs,
                   presets>>

NextLoad == CallSegmentManagerLoad

SpecLoad == InitLoad /\ [][NextLoad]_vars

(***************************************************************************)
(* Specification of a boot and of the device running afterwards: app_main  *)
(* from segment_manager_load() on, the signal ESP_ZB_ZDO_SIGNAL_SKIP_      *)
(* STARTUP, which starts the render loop, and then the render loop, the    *)
(* preset attributes, the deferred synchronisation of the attribute store  *)
(* and the save timer.  The flash holds what an earlier run saved: a       *)
(* "seg_state" blob of the current format or one with fewer entries, and   *)
(* presets.                                                                *)
(***************************************************************************)
\* on and startup_on_off of a segment as an earlier run may have saved them
\* (3 is a value without a meaning in ZCL)
StoredPolicies == {0, 1, 2, 3, DEFAULT_STARTUP_ON_OFF}
StoredLight(on, policy) ==
    [NvsLight(DefaultLight) EXCEPT !.on = on, !.startup_on_off = policy]
\* The blobs of "seg_state": segment 0 drawn, segment 1 stored off with
\* policy on and segment 2 stored on with policy toggle; or a blob of
\* another firmware with two entries only
StoredSegStates ==
    {[n \in Segs |-> IF n = 0 THEN l
                     ELSE IF n = 1 THEN StoredLight(FALSE, 1)
                     ELSE StoredLight(TRUE, 2)] :
        l \in {StoredLight(on, p) : on \in BOOLEAN, p \in StoredPolicies}}
      \cup {[n \in {0, 1} |-> StoredLight(TRUE, 1)]}
\* level 200 in every segment, saved as a preset by an earlier run
StoredPreset ==
    [name_length |-> DefaultNameLength,
     segments |-> [n \in Segs |-> [DefaultLight EXCEPT !.on = TRUE,
                                                       !.level = 200]]]
BootTransitionMs == {0}
\* What the poll of led_render_cb reads for the endpoint of segment 0: the
\* defaults of the attribute store, or white mode with level 200
BootPollReads ==
    {[mode |-> 0, level |-> 128, enh_hue |-> 0, sat |-> 0, ct |-> 250],
     [mode |-> 2, level |-> 200, enh_hue |-> 0, sat |-> 0, ct |-> 400]}
\* the slot written to the save-slot attribute: one past the last
BootSaveSlotArgs == {8}

InitBoot ==
    /\ trans = [t \in TransIds |-> ZeroTransition]
    /\ settled = [t \in TransIds |-> 0]
    /\ s_registry = <<>>
    /\ s_timer = FALSE
    /\ now = 0
    /\ pc = "load"
    /\ last = NoOp
    /\ calc = NoCalc
    /\ s_geom = DefaultGeom(StripCounts[1])
    /\ s_state = [n \in Segs |-> DefaultLight]
    /\ s_strips = NoStrips
    /\ frame = [s \in Strips |-> s_strips[s].pixel_buf]
    /\ \E blob \in StoredSegStates :
          nvs = [seg_geom |-> s_geom, seg_state |-> blob,
                 prst |-> [k \in Slots |->
                             IF k = 0 THEN StoredPreset ELSE EmptySlot]]
    /\ PresetsIdle

\* (variant: toggle is taken for "previous")
ApplyStartupOnOff_no_toggle(state) ==
    [n \in Segs |->
        [state[n] EXCEPT
            !.on = CASE state[n].startup_on_off = 0 -> FALSE
                     [] state[n].startup_on_off = 1 -> TRUE
                     [] OTHER -> state[n].on]]

\* The switch of app_main on startup_on_off
ApplyStartupOnOff(state) ==
    [n \in Segs |->
        [state[n] EXCEPT
            !.on = CASE state[n].startup_on_off = 0 -> FALSE
                     [] state[n].startup_on_off = 1 -> TRUE
                     [] state[n].startup_on_off = 2 -> ~state[n].on
                     [] OTHER -> state[n].on]]

\* segment_manager_load(): the blob is taken when its size is the expected
\* one and left aside otherwise
BootLoad ==
    /\ pc = "load"
    /\ s_state' = segment_manager_load(
                      [sz |-> Cardinality(DOMAIN nvs.seg_state) * SizeofNvsLight,
                       data |-> nvs.seg_state], s_state)
    /\ pc' = "engine_init"
    /\ last' = [NoOp EXCEPT !.op = "segment_manager_load"]
    /\ UNCHANGED <<trans, settled, s_registry, s_timer, now, zb, tasks, calc,
                   s_geom, s_strips, frame, nvs, presets>>

\* segment_manager_init_transitions(), after the registration loop
BootInitTransitions ==
    /\ pc = "seed"
    /\ s_state' = segment_manager_init_transitions(s_state)
    /\ pc' = "presets"
    /\ last' = [NoOp EXCEPT !.op = "seed"]
    /\ UNCHANGED <<trans, settled, s_registry, s_timer, now, zb, tasks, calc,
                   s_geom, s_strips, frame, nvs, presets>>

\* preset_manager_init() with the version flag set: the slots are read
BootPresetInit ==
    /\ pc = "presets"
    /\ s_slots' = nvs.prst
    /\ pc' = "power_on"
    /\ last' = [NoOp EXCEPT !.op = "preset_manager_init"]
    /\ UNCHANGED <<trans, settled, s_registry, s_timer, now, zb, tasks, calc,
                   s_geom, s_state, s_strips, frame, nvs,
                   g_global_transition_ms, s_save_timer>>

\* "Apply per-segment power-on behavior"
BootPowerOn ==
    /\ pc = "power_on"
    /\ s_state' = ApplyStartupOnOff(s_state)
    /\ pc' = "led_driver_init"
    /\ last' = [NoOp EXCEPT !.op = "power_on"]
    /\ UNCHANGED <<trans, settled, s_registry, s_timer, now, zb, tasks, calc,
                   s_geom, s_strips, frame, nvs, presets>>

\* led_driver_init, the two led_driver_clear and led_driver_refresh;
\* app_main returns when the driver cannot be set up
BootLedDriverInit ==
    /\ pc = "led_driver_init"
    /\ \E ok \in BOOLEAN :
          IF ok
          THEN /\ s_strips' = ClearStrips(led_driver_init(StripCounts))
               /\ frame' = led_driver_refresh(frame, s_strips')
               /\ pc' = "zigbee_init"
               /\ last' = [NoOp EXCEPT !.op = "led_driver_init"]
          ELSE /\ pc' = "returned"
               /\ last' = [NoOp EXCEPT !.op = "led_driver_init",
                                       !.ret = ESP_FAIL]
               /\ UNCHANGED <<s_strips, frame>>
    /\ UNCHANGED <<trans, settled, s_registry, s_timer, now, zb, tasks, calc,
                   s_geom, s_state, nvs, presets>>

\* zigbee_init(): xTaskCreate of zb_main; app_main returns when it fails
BootZigbeeInit ==
    /\ pc = "zigbee_init"
    /\ \E ok \in BOOLEAN :
          /\ pc' = IF ok THEN "run" ELSE "returned"
          /\ last' = [NoOp EXCEPT !.op = "zigbee_init",
                                  !.ret = IF ok THEN ESP_OK ELSE ESP_FAIL]
    /\ UNCHANGED <<trans, settled, s_registry, s_timer, now>>
    /\ UNCHANGED app

\* The Zigbee task is up and the stack has sent SKIP_STARTUP
ZigbeeRunning == pc = "run" /\ "led_render_cb" \in zb_alarms

\* esp_zb_app_signal_handler, ESP_ZB_ZDO_SIGNAL_SKIP_STARTUP, which the stack
\* sends once: sync_zcl_from_state() and led_renderer_start()
SignalSkipStartup ==
    /\ pc = "run"
    /\ ~ZigbeeRunning
    /\ zcl_attrs' = sync_zcl_from_state(s_state)
    /\ zb_alarms' = zb_alarms \cup {"led_render_cb"}
    /\ last' = [NoOp EXCEPT !.op = "skip_startup"]
    /\ UNCHANGED <<engine, save_due, tasks, calc, s_geom, s_state, s_strips,
                   frame, nvs, presets>>

\* (variant: the callback does not ask for its next run)
led_render_rearm_never(alarms) == alarms

\* The last statement of led_render_cb:
\* esp_zb_scheduler_alarm(led_render_cb, 0, 5)
led_render_rearm(alarms) == alarms \cup {"led_render_cb"}

\* led_render_cb, run by the scheduler, which takes it from the pending
\* callbacks: the poll of the attribute store (a is what it reads for the
\* endpoint of segment 0, the other endpoints hold what s_state holds),
\* update_leds and the alarm for the next pass
LedRenderCbBoot(a) ==
    /\ ZigbeeRunning
    /\ s_state' = [s_state EXCEPT
                     ![0] = PollSegment(@, a, g_global_transition_ms, now)]
    /\ s_strips' = ComposeLeds(s_strips, s_geom, s_state')
    /\ frame' = led_driver_refresh(frame, s_strips')
    /\ zb_alarms' = led_render_rearm(zb_alarms \ {"led_render_cb"})
    /\ last' = [NoOp EXCEPT !.op = "led_render_cb"]
    /\ UNCHANGED <<engine, save_due, zcl_attrs, tasks, calc, s_geom, nvs,
                   presets>>

\* handle_set_attr_value, global transition time of the device endpoint
GlobalTransitionMsWrite(ms) ==
    /\ g_global_transition_ms' = ms
    /\ last' = [NoOp EXCEPT !.op = "global_transition_ms_write"]
    /\ UNCHANGED <<engine, zb, tasks, calc, s_geom, s_state, s_strips, frame,
                   nvs, s_slots, s_save_timer>>

\* sync_zcl_deferred_cb, called by the scheduler of the Zigbee task between
\* the handlers it runs: sync_zcl_from_state()
SyncZclDeferredCb ==
    /\ "sync_zcl_deferred_cb" \in zb_alarms
    /\ tasks["zb_main"].pc = "idle"
    /\ zcl_attrs' = sync_zcl_from_state(s_state)
    /\ zb_alarms' = zb_alarms \ {"sync_zcl_deferred_cb"}
    /\ last' = [NoOp EXCEPT !.op = "sync_zcl_deferred_cb"]
                  @@ [sync_ran |-> TRUE]
    /\ UNCHANGED <<engine, save_due, tasks, calc, s_geom, s_state, s_strips,
                   frame, nvs, presets>>

NextBoot ==
    \/ BootLoad
    \/ AppEngineInit
    \/ AppRegister
    \/ BootInitTransitions
    \/ BootPresetInit
    \/ BootPowerOn
    \/ BootLedDriverInit
    \/ BootZigbeeInit
    \/ SignalSkipStartup
    \/ \E a \in BootPollReads : LedRenderCbBoot(a)
    \/ ZigbeeRunning /\ \E ms \in BootTransitionMs : GlobalTransitionMsWrite(ms)
    \/ ZigbeeRunning /\ \E slot \in BootSaveSlotArgs : HandleSaveSlotWrite(slot)
    \/ ZigbeeRunning /\ \E slot \in RecallSlotArgs : HandleRecallSlotWrite(slot)
    \/ SyncZclDeferredCb
    \/ SaveTimerCb

SpecBoot == InitBoot /\ [][NextBoot]_vars

\* The scheduler of the Zigbee task keeps running its callbacks
SpecBootLive == SpecBoot /\ WF_vars(\E a \in BootPollReads : LedRenderCbBoot(a))

(***************************************************************************)
(* Specification of the preset store: preset_manager_init on a flash with  *)
(* or without the version flag, then the save, recall and delete handlers  *)
(* with a store that may refuse a write, segment 0 being dimmed in between.     *)
(***************************************************************************)
PRESET_VERSION_V2 == 2
\* "prst_version" as preset_manager_init may find it: 0 stands for a flash
\* without the key
StoredVersions == {0, PRESET_VERSION_V2}
\* uint8_t values written to the save_slot, recall_slot and delete_slot
\* attributes
SlotArgs == {0, 1, 8}
\* the slots the device saves to; slot 1 holds what the flash held
SlotSaveArgs == {0, 8}
\* StartUpOnOff of segment 0 as written before the boot: previous or on
SlotStartupValues == {DEFAULT_STARTUP_ON_OFF, 1}

\* The slot migrate_legacy_presets leaves where the flash has no blob:
\* memset to zero, then the default name
DefaultNamedSlot ==
    [name_length |-> DefaultNameLength, segments |-> [n \in Segs |-> ZeroLight]]

\* migrate_legacy_presets: s_slots afterwards.  A key that is absent is an
\* EmptySlot of the store; the blobs of the store have valid names.
migrate_legacy_presets(store) ==
    [k \in Slots |->
        IF store.prst[k].name_length > 0 THEN store.prst[k]
        ELSE DefaultNamedSlot]

\* preset_manager_init: s_slots afterwards
preset_manager_init(store) ==
    IF store.prst_version < PRESET_VERSION_V2
    THEN migrate_legacy_presets(store)
    ELSE store.prst

\* preset_manager_save with the store taking the write (nvs_ok) or not:
\* <<return value, s_slots afterwards, store afterwards>>.  The slot is
\* built in s_slots before nvs_open.
preset_manager_save_nvs(slots, store, slot, state, nvs_ok) ==
    IF slot >= MAX_PRESET_SLOTS THEN <<ESP_ERR_INVALID_ARG, slots, store>>
    ELSE LET built == preset_manager_save(slots, slot, state)[2]
         IN  IF nvs_ok
             THEN <<ESP_OK, built, [store EXCEPT !.prst[slot] = built[slot]]>>
             ELSE <<ESP_FAIL, built, store>>

\* (variant: the key is erased and the slot in memory is kept)
preset_manager_delete_store_only(slots, store, slot, nvs_ok) ==
    IF slot >= MAX_PRESET_SLOTS THEN <<ESP_ERR_INVALID_ARG, slots, store>>
    ELSE IF nvs_ok
         THEN <<ESP_OK, slots, [store EXCEPT !.prst[slot] = EmptySlot]>>
         ELSE <<ESP_FAIL, slots, store>>

\* preset_manager_delete: <<return value, s_slots afterwards, store
\* afterwards>>.  memset of the slot, then nvs_erase_key, whose
\* ESP_ERR_NVS_NOT_FOUND for a key that is absent counts as success.
preset_manager_delete(slots, store, slot, nvs_ok) ==
    IF slot >= MAX_PRESET_SLOTS THEN <<ESP_ERR_INVALID_ARG, slots, store>>
    ELSE IF nvs_ok
         THEN <<ESP_OK, [slots EXCEPT ![slot] = EmptySlot],
                [store EXCEPT !.prst[slot] = EmptySlot]>>
         ELSE <<ESP_FAIL, [slots EXCEPT ![slot] = EmptySlot], store>>

\* preset_manager_count
preset_manager_count(slots) ==
    Cardinality({k \in Slots : slots[k].name_length > 0})

InitSlots ==
    /\ trans = [t \in TransIds |-> ZeroTransition]
    /\ settled = [t \in TransIds |-> 0]
    /\ s_registry = TransOrder
    /\ s_timer = TRUE
    /\ now = 0
    /\ pc = "presets"
    /\ last = NoOp
    /\ calc = NoCalc
    /\ s_geom = DefaultGeom(StripCounts[1])
    /\ \E p \in SlotStartupValues :
          s_state = segment_manager_init_transitions(
                        [n \in Segs |->
                            [DefaultLight EXCEPT
                                !.on = TRUE,
                                !.startup_on_off =
                                    IF n = 0 THEN p ELSE @]])
    /\ s_strips = led_driver_init(StripCounts)
    /\ frame = [s \in Strips |-> s_strips[s].pixel_buf]
    /\ \E v \in StoredVersions, stored \in BOOLEAN :
          nvs = [seg_geom |-> s_geom,
                 seg_state |-> [n \in Segs |-> NvsLight(s_state[n])],
                 prst |-> [k \in Slots |->
                             IF stored /\ k = 1 THEN StoredPreset
                             ELSE EmptySlot],
                 prst_version |-> v]
    /\ s_slots = [k \in Slots |-> EmptySlot]
    /\ g_global_transition_ms = 0
    /\ s_save_timer = FALSE
    /\ zb_alarms = {}
    /\ save_due = 0
    /\ zcl_attrs = DefaultAttrs
    /\ tasks = [c \in Tasks |-> TaskIdle]

\* preset_manager_init() of app_main; the version flag is set after a
\* migration
PresetManagerInit ==
    /\ pc = "presets"
    /\ s_slots' = preset_manager_init(nvs)
    /\ nvs' = [nvs EXCEPT !.prst_version = PRESET_VERSION_V2]
    /\ pc' = "run"
    /\ last' = [NoOp EXCEPT !.op = "preset_manager_init"]
    /\ UNCHANGED <<trans, settled, s_registry, s_timer, now, zb, tasks, calc,
                   s_geom, s_state, s_strips, frame, g_global_transition_ms,
                   s_save_timer>>

\* handle_save_slot_write, the store taking the write or not
HandleSaveSlotWriteNvs(slot, nvs_ok) ==
    /\ IF slot > 7
       THEN /\ last' = [NoOp EXCEPT !.op = "save_slot", !.target = slot,
                                    !.ret = ESP_ERR_INVALID_ARG]
            /\ UNCHANGED <<s_slots, nvs>>
       ELSE LET res == preset_manager_save_nvs(s_slots, nvs, slot, s_state,
                                               nvs_ok)
            IN  /\ s_slots' = res[2]
                /\ nvs' = res[3]
                /\ last' = [NoOp EXCEPT !.op = "save_slot", !.target = slot,
                                        !.ret = res[1]]
    /\ UNCHANGED <<engine, zb, tasks, calc, s_geom, s_state, s_strips, frame,
                   g_global_transition_ms, s_save_timer>>

\* handle_delete_slot_write, the store taking the erase or not; was_occupied
\* tells whether the slot held a preset when the handler was called
HandleDeleteSlotWrite(slot, nvs_ok) ==
    /\ IF slot > 7
       THEN /\ last' = [NoOp EXCEPT !.op = "delete_slot", !.target = slot,
                                    !.ret = ESP_ERR_INVALID_ARG]
                          @@ [was_occupied |-> FALSE]
            /\ UNCHANGED <<s_slots, nvs>>
       ELSE LET res == preset_manager_delete(s_slots, nvs, slot, nvs_ok)
            IN  /\ s_slots' = res[2]
                /\ nvs' = res[3]
                /\ last' = [NoOp EXCEPT !.op = "delete_slot", !.target = slot,
                                        !.ret = res[1]]
                              @@ [was_occupied |->
                                      s_slots[slot].name_length > 0]
    /\ UNCHANGED <<engine, zb, tasks, calc, s_geom, s_state, s_strips, frame,
                   g_global_transition_ms, s_save_timer>>

NextSlots ==
    \/ PresetManagerInit
    \/ pc = "run" /\ \E slot \in SlotSaveArgs, ok \in BOOLEAN :
                        HandleSaveSlotWriteNvs(slot, ok)
    \/ pc = "run" /\ \E slot \in SlotArgs, ok \in BOOLEAN :
                        HandleDeleteSlotWrite(slot, ok)
    \/ pc = "run" /\ \E slot \in SlotArgs : HandleRecallSlotWrite(slot)
    \/ pc = "run" /\ \E v \in PresetLevels : LevelWrite(0, v)

SpecSlots == InitSlots /\ [][NextSlots]_vars

(***************************************************************************)
(* Specification of transition_start(t, target, d > 0) on the active level *)
(* transition, one field write per step in the command context, with the   *)
(* engine's timer_callback, which runs in the esp_timer task, free to run  *)
(* between the steps: the engine takes no lock and masks no interrupt.     *)
(* pc is the field the command context writes next; calc holds the call:   *)
(* target, duration, the value transition_get_value gave when the call     *)
(* made its first write, and whether timer_callback has run since.         *)
(***************************************************************************)
RaceTargets == {0, 100}
RaceDurationsMs == {1, 2}

InitRace ==
    /\ trans = [t \in TransIds |->
                  IF t = "level"
                  THEN transition_start(
                           transition_start(ZeroTransition, 0, 0, 0),
                           200, 2, 0)
                  ELSE ZeroTransition]
    /\ settled = [t \in TransIds |-> 0]
    /\ s_registry = TransOrder
    /\ s_timer = TRUE
    /\ now = 0
    /\ pc = "run"
    /\ last = NoOp
    /\ AppIdle

\* t->start_value = t->current_value
StartWriteStartValue(target, duration_ms) ==
    /\ pc = "run"
    /\ trans["level"].active
    /\ now + U32(duration_ms * 1000) <= MaxTime
    /\ trans' = [trans EXCEPT
                    !["level"].start_value = trans["level"].current_value]
    /\ calc' = [fn |-> "transition_start",
                args |-> <<target, duration_ms,
                           transition_get_value(trans["level"]), 0>>,
                out |-> PENDING]
    /\ pc' = "target_value"
    /\ last' = Op("start_value", "level")
    /\ UNCHANGED <<settled, s_registry, s_timer, now, zb, tasks, s_geom,
                   s_state, s_strips, frame, nvs, presets>>

\* t->target_value = target
StartWriteTargetValue ==
    /\ pc = "target_value"
    /\ trans' = [trans EXCEPT !["level"].target_value = calc.args[1]]
    /\ pc' = "duration_us"
    /\ last' = Op("target_value", "level")
    /\ UNCHANGED <<settled, s_registry, s_timer, now>>
    /\ UNCHANGED app

\* t->duration_us = (uint32_t)((uint64_t)duration_ms * 1000ULL)
StartWriteDurationUs ==
    /\ pc = "duration_us"
    /\ trans' = [trans EXCEPT
                    !["level"].duration_us = U32(calc.args[2] * 1000)]
    /\ pc' = "start_time_us"
    /\ last' = Op("duration_us", "level")
    /\ UNCHANGED <<settled, s_registry, s_timer, now>>
    /\ UNCHANGED app

\* t->start_time_us = esp_timer_get_time()
StartWriteStartTimeUs ==
    /\ pc = "start_time_us"
    /\ trans' = [trans EXCEPT !["level"].start_time_us = now]
    /\ pc' = "active"
    /\ last' = Op("start_time_us", "level")
    /\ UNCHANGED <<settled, s_registry, s_timer, now>>
    /\ UNCHANGED app

\* t->active = true, and the return to the caller
StartWriteActive ==
    /\ pc = "active"
    /\ trans' = [trans EXCEPT !["level"].active = TRUE]
    /\ pc' = "run"
    /\ calc' = NoCalc
    /\ last' = [Op("start", "level") EXCEPT
                  !.target = calc.args[1], !.dur = calc.args[2],
                  !.prev_value = calc.args[3]]
                  @@ [interleaved |-> calc.args[4] = 1]
    /\ UNCHANGED <<settled, s_registry, s_timer, now, zb, tasks, s_geom,
                   s_state, s_strips, frame, nvs, presets>>

\* timer_callback in the esp_timer task, whatever the command context is
\* doing
TimerCallbackPreempting ==
    /\ s_timer
    /\ LET after == TickRegistry(s_registry, 1, trans, now)
       IN  /\ trans' = after
           /\ last' = [Op("timer", NULL) EXCEPT !.completed = CompletedBy(after)]
    /\ calc' = IF pc = "run" THEN calc
               ELSE [calc EXCEPT !.args[4] = 1]
    /\ UNCHANGED <<settled, s_registry, s_timer, now, pc, zb, tasks, s_geom,
                   s_state, s_strips, frame, nvs, presets>>

NextRace ==
    \/ \E target \in RaceTargets, d \in RaceDurationsMs :
          StartWriteStartValue(target, d)
    \/ StartWriteTargetValue
    \/ StartWriteDurationUs
    \/ StartWriteStartTimeUs
    \/ StartWriteActive
    \/ TimerCallbackPreempting
    \/ AdvanceClock

SpecRace == InitRace /\ [][NextRace]_vars

(***************************************************************************)
(* Specification of the duration arithmetic of transition_start and of the *)
(* completion test of transition_tick over the whole range of the          *)
(* uint32_t duration_ms.  Values beyond 31 bits are kept as two 16-bit     *)
(* halves <<high, low>>; calc holds the call: the duration_ms handed to    *)
(* transition_start, then the duration_us it stored, then the elapsed time *)
(* of a tick and whether the tick completed the transition.                *)
(***************************************************************************)
\* duration_ms samples as <<high, low>>: 1, 2, 1000, 65535, 65536, 4294967
\* (the last whose product fits 32 bits), 4294968, 2^31, 2^32 - 1000 and
\* 2^32 - 1
WideDurationsMs ==
    {<<0, 1>>, <<0, 2>>, <<0, 1000>>, <<0, 65535>>, <<1, 0>>, <<65, 35127>>,
     <<65, 35128>>, <<32768, 0>>, <<65535, 64536>>, <<65535, 65535>>}
\* elapsed microseconds between the start and a tick
ElapsedUs ==
    {0, 1, 703, 704, 999, 1000, 1999, 2000, 999999, 1000000, 65535999,
     2000000000}

\* (uint32_t)((uint64_t)duration_ms * 1000ULL): the low 32 bits of the
\* product, which itself fits 64 bits
DurationUs32(ms) ==
    LET p0 == ms[2] * 1000
    IN  <<(ms[1] * 1000 + p0 \div 65536) % 65536, p0 % 65536>>

\* (uint64_t)elapsed >= (uint64_t)t->duration_us, for 0 <= elapsed < 2^31
ElapsedReaches(elapsed, duration_us) ==
    \/ elapsed \div 65536 > duration_us[1]
    \/ /\ elapsed \div 65536 = duration_us[1]
       /\ elapsed % 65536 >= duration_us[2]

InitDur ==
    /\ EngineIdle
    /\ last = NoOp
    /\ DeviceIdle
    /\ \E ms \in WideDurationsMs :
          calc = [fn |-> "transition_start", args |-> ms, out |-> PENDING]

\* transition_start(t, target, duration_ms) with duration_ms > 0: the
\* duration it stores
CallStartWide ==
    /\ calc.fn = "transition_start"
    /\ calc' = [fn |-> "transition_tick",
                args |-> calc.args \o DurationUs32(calc.args),
                out |-> PENDING]
    /\ last' = Op("start", NULL)
    /\ UNCHANGED <<engine, zb, tasks, s_geom, s_state, s_strips, frame, nvs,
                   presets>>

\* transition_tick on the transition while it is active, elapsed after its
\* start: out is <<elapsed, 1 if the tick completed the transition else 0>>
CallTickWide(elapsed) ==
    /\ calc.fn = "transition_tick"
    /\ IF calc.out = PENDING THEN TRUE ELSE calc.out[2] = 0
    /\ calc' = [calc EXCEPT
                  !.out = <<elapsed,
                            IF ElapsedReaches(elapsed,
                                              <<calc.args[3], calc.args[4]>>)
                            THEN 1 ELSE 0>>]
    /\ last' = Op("tick", NULL)
    /\ UNCHANGED <<engine, zb, tasks, s_geom, s_state, s_strips, frame, nvs,
                   presets>>

NextDur ==
    \/ CallStartWide
    \/ \E e \in ElapsedUs : CallTickWide(e)

SpecDur == InitDur /\ [][NextDur]_vars

(***************************************************************************)
(* Specification of the attribute store of the segment endpoints: the      *)
(* stack writes it on a command, sync_zcl_from_state writes it from        *)
(* s_state, and the poll of led_render_cb reads it for every segment.      *)
(* The smoothing time is 0, so every transition started is instant.        *)
(***************************************************************************)
\* the hue, saturation and colour mode segment 0 is running with; the hues
\* of ExactHues are those of SyncHues that sync_zcl_from_state and the poll
\* convert there and back without loss
SyncHues == {0, 1, 120, 359}
ExactHues == {0, 120}
SyncSats == {0, 254}
SyncModes == {0, 2}
\* the levels a command sets
SyncLevels == {50}
\* the preset held by slot 0: a colour whose hue converts exactly
SyncPreset ==
    [name_length |-> DefaultNameLength,
     segments |-> [n \in Segs |->
                      [DefaultLight EXCEPT !.on = TRUE, !.level = 200,
                                           !.hue = 120, !.saturation = 254,
                                           !.color_temp = 400]]]

\* The device is running: the segments hold what was loaded, SKIP_STARTUP
\* has synchronised the attribute store from them and started the render
\* loop, slot 0 holds a preset
RunningSynced(hues) ==
    /\ trans = [t \in TransIds |-> ZeroTransition]
    /\ settled = [t \in TransIds |-> 0]
    /\ s_registry = TransOrder
    /\ s_timer = TRUE
    /\ now = 0
    /\ pc = "run"
    /\ last = NoOp
    /\ calc = NoCalc
    /\ s_geom = DefaultGeom(StripCounts[1])
    /\ \E h \in hues, s \in SyncSats, m \in SyncModes :
          s_state = segment_manager_init_transitions(
                        [n \in Segs |->
                            IF n = 0
                            THEN [DefaultLight EXCEPT !.on = TRUE, !.hue = h,
                                                      !.saturation = s,
                                                      !.color_mode = m]
                            ELSE [DefaultLight EXCEPT !.on = TRUE]])
    /\ s_strips = ComposeLeds(led_driver_init(StripCounts), s_geom, s_state)
    /\ frame = [s \in Strips |-> s_strips[s].pixel_buf]
    /\ s_slots = [k \in Slots |-> IF k = 0 THEN SyncPreset ELSE EmptySlot]
    /\ nvs = [seg_geom |-> s_geom,
              seg_state |-> [n \in Segs |-> NvsLight(s_state[n])],
              prst |-> s_slots]
    /\ g_global_transition_ms = 0
    /\ s_save_timer = FALSE
    /\ tasks = [c \in Tasks |-> TaskIdle]
    /\ zb_alarms = {"led_render_cb"}
    /\ save_due = 0
    /\ zcl_attrs = sync_zcl_from_state(s_state)

InitSync == RunningSynced(ExactHues)

\* The stack handles a level command itself: it writes CurrentLevel to the
\* attribute store and calls no handler of the application
SdkLevelCommand(n, value) ==
    /\ zcl_attrs' = [zcl_attrs EXCEPT ![n].level = value]
    /\ last' = [NoOp EXCEPT !.op = "sdk_level_command", !.target = n]
    /\ UNCHANGED <<engine, zb_alarms, save_due, tasks, calc, s_geom, s_state,
                   s_strips, frame, nvs, presets>>

\* A write of CurrentLevel that the stack stores and reports:
\* handle_set_attr_value, CurrentLevel of a segment endpoint
SetAttrLevel(n, value) ==
    /\ zcl_attrs' = [zcl_attrs EXCEPT ![n].level = value]
    /\ s_state' = [s_state EXCEPT
                     ![n].level = value,
                     ![n].level_trans =
                         transition_start(@, value, g_global_transition_ms,
                                          now)]
    /\ s_strips' = ComposeLeds(s_strips, s_geom, s_state')
    /\ frame' = led_driver_refresh(frame, s_strips')
    /\ s_save_timer' = TRUE
    /\ save_due' = schedule_save(s_save_timer, save_due, now)
    /\ last' = [NoOp EXCEPT !.op = "level_write", !.target = n]
    /\ UNCHANGED <<engine, zb_alarms, tasks, calc, s_geom, nvs, s_slots,
                   g_global_transition_ms>>

\* The loop of led_render_cb over the segments, each polled from the
\* attributes of its endpoint
PollStore(state, attrs, ms, clock) ==
    [n \in Segs |-> PollSegment(state[n], attrs[n], ms, clock)]

\* led_render_cb: the poll of the attribute store, update_leds and the alarm
\* for the next pass
LedRenderCbStore ==
    /\ "led_render_cb" \in zb_alarms
    /\ s_state' = PollStore(s_state, zcl_attrs, g_global_transition_ms, now)
    /\ s_strips' = ComposeLeds(s_strips, s_geom, s_state')
    /\ frame' = led_driver_refresh(frame, s_strips')
    /\ zb_alarms' = led_render_rearm(zb_alarms \ {"led_render_cb"})
    /\ last' = [NoOp EXCEPT !.op = "led_render_cb"]
    /\ UNCHANGED <<engine, save_due, zcl_attrs, tasks, calc, s_geom, nvs,
                   presets>>

NextSync ==
    \/ \E v \in SyncLevels : SdkLevelCommand(0, v)
    \/ \E v \in SyncLevels : SetAttrLevel(0, v)
    \/ HandleRecallSlotWrite(0)
    \/ LedRenderCbStore
    \/ SyncZclDeferredCb
    \/ SaveTimerCb

SpecSync == InitSync /\ [][NextSync]_vars

(***************************************************************************)
(* Specification of one recall with no command after it: the preset of     *)
(* slot 0 is recalled once, then only the render loop and the deferred     *)
(* synchronisation run.  s_save_timer, which the recall arms and nothing   *)
(* here disarms, tells that the recall has happened.                       *)
(***************************************************************************)
InitQuiet == RunningSynced(SyncHues)

NextQuiet ==
    \/ ~s_save_timer /\ HandleRecallSlotWrite(0)
    \/ LedRenderCbStore
    \/ SyncZclDeferredCb

SpecQuiet == InitQuiet /\ [][NextQuiet]_vars

\* The scheduler of the Zigbee task runs the callbacks that are pending
SpecQuietLive ==
    SpecQuiet /\ WF_vars(LedRenderCbStore) /\ WF_vars(SyncZclDeferredCb)

(***************************************************************************)
(* Properties                                                              *)
(***************************************************************************)
Min(a, b) == IF a <= b THEN a ELSE b
Max(a, b) == IF a >= b THEN a ELSE b
Between(x, a, b) == Min(a, b) <= x /\ x <= Max(a, b)
IsTickOp(o) == o.op \in {"tick", "timer"}
\* the step that leads to last' ticked transition t
Ticked(t) ==
    \/ last'.op = "tick" /\ last'.t = t
    \/ last'.op = "timer" /\ Registered(t)

\* C1: transition_start with a duration > 0 on an active transition leaves
\* transition_get_value at the value it had before the call.
C1_StartKeepsValue ==
    (last.op = "start" /\ last.t # NULL /\ last.dur > 0 /\ last.prev_active)
        => transition_get_value(trans[last.t]) = last.prev_value

\* an active transition interrupted in mid-flight by a start toward another target
C1_Witness ==
    /\ last.op = "start" /\ last.t # NULL /\ last.dur > 0 /\ last.prev_active
    /\ last.prev_value \notin (TargetValues \cup SeedValues)
    /\ trans[last.t].target_value # last.prev_value
    /\ trans[last.t].active

C3_CompletionPins ==
    [][\A t \in TransIds :
          /\ (/\ trans[t].active /\ Ticked(t)
               /\ ClampElapsed(now - trans[t].start_time_us) >= trans[t].duration_us)
                => (~trans'[t].active
                    /\ trans'[t].current_value = trans'[t].target_value)
          /\ (/\ ~trans[t].active /\ Ticked(t)
               /\ trans[t].current_value = trans[t].target_value)
                => trans'[t] = trans[t]]_vars

\* a transition completed by a tick is ticked again at a later clock value
C3_Witness ==
    /\ last.op = "tick" /\ last.t # NULL /\ ~last.prev_active
    /\ LET t == trans[last.t]
       IN  /\ ~t.active
           /\ t.current_value = t.target_value
           /\ t.start_value # t.target_value
           /\ t.duration_us > 0
           /\ now > t.start_time_us + t.duration_us

\* C4: transition_start with duration 0 sets start, target and current value
\* to the target and clears active, whatever the transition was doing.
C4_InstantSet ==
    (last.op = "start" /\ last.t # NULL /\ last.dur = 0)
        => /\ transition_get_value(trans[last.t]) = last.target
           /\ trans[last.t].start_value = last.target
           /\ trans[last.t].target_value = last.target
           /\ ~transition_is_active(trans[last.t])

\* an instant start that interrupts a transition in mid-flight
C4_Witness ==
    /\ last.op = "start" /\ last.t # NULL /\ last.dur = 0
    /\ last.prev_active
    /\ last.prev_value \notin (TargetValues \cup SeedValues)
    /\ last.prev_value # last.target

\* C5: transition_cancel clears active and keeps current_value; ticks and
\* timer callbacks never change the current_value of an inactive transition.
C5_CancelFreezes ==
    [][\A t \in TransIds :
          /\ (last'.op = "cancel" /\ last'.t = t)
                => (~trans'[t].active
                    /\ trans'[t].current_value = trans[t].current_value)
          /\ (~trans[t].active /\ IsTickOp(last'))
                => (~trans'[t].active
                    /\ trans'[t].current_value = trans[t].current_value)]_vars

\* a registered transition frozen in mid-flight has seen a timer callback
\* after the time at which it would have completed
C5_Witness ==
    \E t \in TransIds :
        /\ last.op = "timer" /\ Registered(t)
        /\ ~trans[t].active
        /\ trans[t].duration_us > 0
        /\ trans[t].current_value # trans[t].target_value
        /\ trans[t].current_value # trans[t].start_value
        /\ now >= trans[t].start_time_us + trans[t].duration_us

\* C6: a registered, active transition is eventually completed by a tick
\* (inactive, at its target) unless a start or cancel interferes; a settled
\* transition stays settled at the same value until it is started again.
C6_EventuallySettles ==
    /\ \A t \in TransIds :
          (trans[t].active /\ Registered(t) /\ s_timer)
            ~> \/ /\ t \in last.completed
                  /\ ~trans[t].active
                  /\ trans[t].current_value = trans[t].target_value
               \/ last.t = t /\ last.op \in {"start", "cancel"}
    /\ [][\A t \in TransIds :
            (/\ ~trans[t].active
             /\ trans[t].current_value = trans[t].target_value
             /\ ~(last'.op = "start" /\ last'.t = t)
             /\ last'.op # "seed")
              => (/\ ~trans'[t].active
                  /\ trans'[t].current_value = trans[t].current_value
                  /\ trans'[t].target_value = trans[t].target_value)]_vars

\* the timer callback has completed a registered transition
C6_Witness ==
    \E t \in last.completed :
        /\ last.op = "timer" /\ Registered(t)
        /\ ~trans[t].active
        /\ trans[t].current_value = trans[t].target_value
        /\ trans[t].start_value # trans[t].target_value

\* C7: each tick of an active transition moves current_value toward the
\* target and never past it: up when target >= start value, down otherwise.
C7_MonotoneTowardTarget ==
    [][\A t \in TransIds :
          (trans[t].active /\ Ticked(t))
            => IF trans[t].target_value >= trans[t].start_value
               THEN /\ trans[t].current_value <= trans'[t].current_value
                    /\ trans'[t].current_value <= trans[t].target_value
               ELSE /\ trans[t].current_value >= trans'[t].current_value
                    /\ trans'[t].current_value >= trans[t].target_value]_vars

\* a tick has moved a still-running transition below the value it had
C7_Witness ==
    /\ last.op = "tick" /\ last.t # NULL /\ last.prev_active
    /\ LET t == trans[last.t]
       IN  /\ t.active
           /\ t.target_value < t.current_value
           /\ t.current_value < last.prev_value

\* C8: an active transition's current_value lies between its start value
\* and its target, whatever the clock reading of the ticks was.
C8_ActiveWithinRange ==
    \A t \in TransIds :
        trans[t].active
          => Between(trans[t].current_value,
                     trans[t].start_value, trans[t].target_value)

\* a decreasing transition ticked with a clock reading before its start time
C8_Witness ==
    /\ last.op = "tick" /\ last.t # NULL /\ last.prev_active
    /\ LET t == trans[last.t]
       IN  /\ t.active
           /\ now < t.start_time_us
           /\ t.target_value < t.start_value

\* C9: a tick at half of an even duration leaves current_value within 1 of
\* the midpoint (start_value + target_value) / 2.
C9_Midpoint ==
    (last.op = "tick" /\ last.t # NULL /\ last.prev_active)
      => LET t == trans[last.t]
         IN  (t.duration_us % 2 = 0 /\ 2 * (now - t.start_time_us) = t.duration_us)
               => /\ 2 * t.current_value - (t.start_value + t.target_value) <= 2
                  /\ (t.start_value + t.target_value) - 2 * t.current_value <= 2

\* a half-time tick of a decreasing transition whose range is odd
C9_Witness ==
    /\ last.op = "tick" /\ last.t # NULL /\ last.prev_active
    /\ LET t == trans[last.t]
       IN  /\ t.duration_us % 2 = 0
           /\ 2 * (now - t.start_time_us) = t.duration_us
           /\ t.target_value < t.start_value
           /\ (t.start_value - t.target_value) % 2 = 1
           /\ t.current_value # t.start_value

\* C10: while a hue transition started from a hue in 0..359 is running, its
\* value read as int16_t lies between that hue and the adjusted target.
C10_HueStaysOnShortArc ==
    (trans["hue"].active /\ trans["hue"].start_value \in 0..359)
      => Between(S16(trans["hue"].current_value),
                 S16(trans["hue"].start_value),
                 S16(trans["hue"].target_value))

(***************************************************************************)
(* C11: for every unsigned 16-bit input raw, normalize_hue(raw) returns a  *)
(* value in the range 0..360.                                              *)
(***************************************************************************)
C11_NormalizedInRange ==
    (calc.fn = "normalize_hue" /\ calc.out # PENDING)
        => calc.out[1] \in 0..360

(***************************************************************************)
(* C12: for every hue that shortest-arc arithmetic can hand to the         *)
(* renderer (signed angles -180..540 stored in a uint16_t), hsv_to_rgb     *)
(* returns the same (r, g, b) as for the non-negative residue of the       *)
(* signed angle modulo 360.                                                *)
(***************************************************************************)
C12_HueSignCorrected ==
    (calc.fn = "hsv_to_rgb" /\ calc.out # PENDING)
        => LET angle == S16(calc.args[1])
               residue == angle % 360
           IN  calc.out = hsv_to_rgb(residue, calc.args[2], calc.args[3])

(***************************************************************************)
(* C13: for all current and target in 0..360, hue_shortest_arc returns a   *)
(* signed value congruent to target modulo 360 that differs from current   *)
(* by at most 180; hue_shortest_arc(350, 10) = 370 and                     *)
(* hue_shortest_arc(10, 350) = -10.                                        *)
(***************************************************************************)
C13_ShortestArc ==
    (calc.fn = "hue_shortest_arc" /\ calc.out # PENDING)
        => LET current == calc.args[1]
               target == calc.args[2]
               r == calc.out[1]
           IN  /\ r % 360 = target % 360
               /\ r - current <= 180
               /\ current - r <= 180
               /\ (current = 350 /\ target = 10) => r = 370
               /\ (current = 10 /\ target = 350) => r = -10

\* the arc from 350 through 360 to 10 has been computed
C13_Witness ==
    /\ calc.fn = "hue_shortest_arc"
    /\ calc.args = <<350, 10>>
    /\ calc.out = <<370>>

(***************************************************************************)
(* C14: after one composition pass every pixel of each strip holds the     *)
(* RGBW value of the highest-index segment with count > 0 on that strip    *)
(* whose range covers the pixel (all-zero if that segment is off), and is  *)
(* all-zero if no such segment covers it.                                  *)
(***************************************************************************)
RenderOps == {"update_leds", "geom_write"}

Covering(strip, i) ==
    {n \in Segs : /\ s_geom[n].count > 0
                  /\ s_geom[n].strip_id = strip
                  /\ s_geom[n].start <= i
                  /\ i < s_geom[n].start + s_geom[n].count}

Topmost(S) == CHOOSE n \in S : \A m \in S : m <= n

C14_TopSegmentWins ==
    last.op \in RenderOps
        => \A strip \in Strips :
              \A i \in 0..(s_strips[strip].count - 1) :
                 s_strips[strip].pixel_buf[i] =
                    IF Covering(strip, i) = {} THEN ZeroPixel
                    ELSE SegmentPixel(s_state[Topmost(Covering(strip, i))])

(***************************************************************************)
(* C15: for every segment geometry (start and count anywhere in 0..65535,  *)
(* any strip_id) one render pass writes the segment's value to exactly the *)
(* indices i with start <= i < min(start + count, strip length) on its     *)
(* strip, the sum taken without wrap-around, and to no index outside a     *)
(* strip buffer.                                                           *)
(***************************************************************************)
C15_WritesExactRange ==
    last.op \in RenderOps
        => \A n \in Segs :
              LET g == s_geom[n]
                  strip_length == IF g.strip_id \in Strips
                                  THEN s_strips[g.strip_id].count ELSE 0
              IN  last.written[n] =
                     {<<g.strip_id, i>> :
                         i \in {j \in 0..(strip_length - 1) :
                                   /\ g.start <= j
                                   /\ j < g.start + g.count}}

(***************************************************************************)
(* C16: every flush of the strip buffers transmits a frame produced by one *)
(* complete composition pass (clear, then all segments in index order)     *)
(* with no flush, clear or pixel write of another pass interleaved,        *)
(* whichever task triggers the composition.                                *)
(***************************************************************************)
C16_FlushIsOnePass ==
    last.op = "led_driver_refresh"
        => /\ ~last.interleaved
           /\ frame = [s \in Strips |->
                          ComposeLeds(s_strips, s_geom, s_state)[s].pixel_buf]

(***************************************************************************)
(* C17: on a successful preset recall with a non-zero global transition    *)
(* duration, each segment's level and colour-temperature transition starts *)
(* from the value transition_get_value returned just before the recall and *)
(* moves to the recalled value over that duration, instead of snapping.    *)
(***************************************************************************)
RecallSucceeded ==
    /\ last'.op = "recall_slot"
    /\ last'.ret = ESP_OK

C17_RecallAnimates ==
    [][(RecallSucceeded /\ g_global_transition_ms > 0)
          => \A n \in Segs :
                /\ transition_get_value(s_state'[n].level_trans)
                      = transition_get_value(s_state[n].level_trans)
                /\ s_state'[n].level_trans.target_value = s_state'[n].level
                /\ s_state'[n].level_trans.duration_us
                      = g_global_transition_ms * 1000
                /\ transition_get_value(s_state'[n].ct_trans)
                      = transition_get_value(s_state[n].ct_trans)
                /\ s_state'[n].ct_trans.target_value = s_state'[n].color_temp
                /\ s_state'[n].ct_trans.duration_us
                      = g_global_transition_ms * 1000]_vars

(***************************************************************************)
(* C18: a recall returns ESP_ERR_INVALID_ARG if and only if slot > 7 and   *)
(* ESP_ERR_NOT_FOUND if and only if slot <= 7 and the slot is empty; in    *)
(* both cases no segment state changes, no transition starts and no save   *)
(* is scheduled.                                                           *)
(***************************************************************************)
C18_RecallErrors ==
    [][last'.op = "recall_slot"
          => LET slot == last'.target
             IN  /\ (last'.ret = ESP_ERR_INVALID_ARG) <=> (slot > 7)
                 /\ (last'.ret = ESP_ERR_NOT_FOUND)
                       <=> (slot <= 7 /\ s_slots[slot].name_length = 0)
                 /\ (last'.ret \in {ESP_ERR_INVALID_ARG, ESP_ERR_NOT_FOUND})
                       => /\ s_state' = s_state
                          /\ s_save_timer' = s_save_timer
                          /\ nvs' = nvs]_vars

\* The empty slot 7 was recalled while a level transition was under way and
\* a preset was stored in another slot
C18_Witness ==
    /\ last.op = "recall_slot"
    /\ last.target = 7
    /\ last.ret = ESP_ERR_NOT_FOUND
    /\ s_state[0].level_trans.active
    /\ s_slots[0].name_length > 0

(***************************************************************************)
(* C19: when the registry already holds 64 distinct references, registering*)
(* a further distinct reference returns ESP_ERR_NO_MEM and leaves the      *)
(* registry with the same 64 references in the same order; the registry    *)
(* count never exceeds 64.                                                 *)
(***************************************************************************)
C19_FullRegistryRejects ==
    /\ [](Len(s_registry) <= TRANSITION_REGISTRY_MAX)
    /\ [][(/\ last'.op = "register"
           /\ Len(s_registry) = TRANSITION_REGISTRY_MAX
           /\ last'.t # NULL
           /\ ~Registered(last'.t))
             => /\ last'.ret = ESP_ERR_NO_MEM
                /\ s_registry' = s_registry]_vars

\* A 65th reference has been turned away
C19_Witness ==
    /\ last.op = "register"
    /\ last.ret = ESP_ERR_NO_MEM
    /\ last.t = RegRef(TRANSITION_REGISTRY_MAX + 1)
    /\ Len(s_registry) = TRANSITION_REGISTRY_MAX

(***************************************************************************)
(* C20: registering a reference that is already in the registry returns    *)
(* ESP_OK and leaves the registry's size and contents unchanged, so that   *)
(* in every reachable state each reference appears in the registry at most *)
(* once.                                                                   *)
(***************************************************************************)
C20_RegisterIdempotent ==
    /\ [](\A i, j \in 1..Len(s_registry) :
             s_registry[i] = s_registry[j] => i = j)
    /\ [][(last'.op = "register" /\ Registered(last'.t))
             => /\ last'.ret = ESP_OK
                /\ s_registry' = s_registry]_vars

\* The first of several registered references has been registered again
C20_Witness ==
    /\ last.op = "register"
    /\ last.ret = ESP_OK
    /\ Len(s_registry) >= 2
    /\ last.t = s_registry[1]

(***************************************************************************)
(* C21: a transition whose registration was rejected because the registry  *)
(* is full still obeys a start with duration 0 (its value is the target    *)
(* and it is inactive), and after a start with a positive duration the     *)
(* periodic callback never changes its current_value, however much time    *)
(* passes.                                                                 *)
(***************************************************************************)
C21_UnregisteredNeverAnimates ==
    [][(pc = "run" /\ ~Registered("level"))
         => /\ (last'.op = "start" /\ last'.t = "level" /\ last'.dur = 0)
                 => /\ transition_get_value(trans'["level"]) = last'.target
                    /\ ~transition_is_active(trans'["level"])
            /\ last'.op = "timer"
                 => trans'["level"].current_value
                      = trans["level"].current_value]_vars

\* The callback has run past the end of a fade of the rejected transition,
\* which still shows its start value, while the registered one has arrived
C21_Witness ==
    /\ pc = "run"
    /\ ~Registered("level")
    /\ last.op = "timer"
    /\ trans["level"].active
    /\ now >= trans["level"].start_time_us + trans["level"].duration_us
    /\ trans["level"].target_value = 65535
    /\ trans["level"].current_value = 0
    /\ "hue" \in last.completed

(***************************************************************************)
(* C22: in every reachable state after startup no segment's hue or         *)
(* saturation transition is active: the attribute write, the poll of the   *)
(* render loop and the preset recall start them with duration 0 whatever   *)
(* the global transition time is, while they start level and colour        *)
(* temperature with the global transition time.                            *)
(***************************************************************************)
StartedWith(t, ms, value) ==
    /\ t.target_value = value
    /\ IF ms = 0
       THEN ~t.active /\ t.current_value = value
       ELSE /\ t.active
            /\ t.start_time_us = now
            /\ t.duration_us = U32(ms * 1000)

C23_OnOffSnapsLevel ==
    [][last'.op = "on_off_write"
         => LET st == s_state'[last'.target]
            IN  /\ ~transition_is_active(st.level_trans)
                /\ transition_get_value(st.level_trans) = st.level]_vars

\* The write arrived while the level was fading, strictly between its start
\* value and the settled level
C23_Witness ==
    /\ last.op = "on_off_write"
    /\ last.prev_active
    /\ last.prev_value > 128
    /\ last.prev_value < s_state[0].level
    /\ ~s_state[0].level_trans.active
    /\ s_state[0].level_trans.current_value = s_state[0].level

(***************************************************************************)
(* C24: for a burst of schedule_save calls in which consecutive calls are  *)
(* less than 500 ms apart, exactly one save is performed, 500 ms after the *)
(* last call of the burst, and it writes the segment state as it is at     *)
(* that moment.  Every call moves the expiry to 500 ms after itself; a     *)
(* save happens only at the expiry, disarms the timer and, when the store  *)
(* takes it, writes the state of that moment; an armed timer leads to a    *)
(* save.                                                                   *)
(***************************************************************************)
C24_DebouncedSave ==
    /\ [][last'.op = "startup_on_off_write"
            => s_save_timer' /\ save_due' = now + 500000]_vars
    /\ [][last'.op = "save_timer_cb"
            => /\ s_save_timer /\ ~s_save_timer'
               /\ now = save_due
               /\ last'.ret = ESP_OK
                    => /\ nvs'.seg_state = [n \in Segs |-> NvsLight(s_state[n])]
                       /\ nvs'.seg_geom = s_geom]_vars
    /\ [][nvs' # nvs => last'.op = "save_timer_cb"]_vars
    /\ (s_save_timer ~> ~s_save_timer)

\* Calls for each of the three segments, the last of them two clock steps
\* after start-up, then one save, 500 ms after that, of what all three wrote
C24_Witness ==
    /\ last.op = "save_timer_cb"
    /\ last.ret = ESP_OK
    /\ now = 2 * SaveClockStep + 500000
    /\ \A n \in Segs : /\ s_state[n].startup_on_off \in StartupOnOffValues
                        /\ nvs.seg_state[n].startup_on_off
                             = s_state[n].startup_on_off
    /\ ~s_save_timer

(***************************************************************************)
(* C25: during start-up segment_manager_init_transitions runs exactly      *)
(* once, after the load, before any transition is registered with the      *)
(* engine (and so before the periodic callback can tick it) and before     *)
(* the render loop is started.                                             *)
(***************************************************************************)
C25_SeedBeforeRegistration ==
    [][last'.op = "seed"
         => /\ pc = "seed" /\ pc' = "run"
            /\ s_registry = <<>>]_vars

(***************************************************************************)
(* C27: loading a persisted segment-state blob in the previous, smaller    *)
(* record format (12 bytes per segment, no power-on field) sets every      *)
(* segment's on, level, hue, saturation, color_mode and colour temperature *)
(* to the values stored for that segment in the blob and sets the power-on *)
(* behaviour to its default, without failing.                              *)
(***************************************************************************)
C27_LegacyLoad ==
    (calc.fn = "segment_manager_load" /\ calc.out # PENDING)
        => LET r == calc.args[1]
               st == calc.out[1]
           IN  /\ st.on = r.on
               /\ st.level = r.level
               /\ st.hue = r.hue
               /\ st.saturation = r.saturation
               /\ st.color_mode = r.color_mode
               /\ st.color_temp = r.color_temp
               /\ st.startup_on_off = DEFAULT_STARTUP_ON_OFF


\* The entry of segment n that segment_manager_load found in flash: the
\* stored one when the blob has an entry for every segment, else the default
LoadedLight(n) ==
    IF DOMAIN nvs.seg_state = Segs THEN nvs.seg_state[n]
    ELSE NvsLight(DefaultLight)
\* app_main is past the power-on switch and the render loop is not started
BootedNotRendered ==
    /\ pc \in {"led_driver_init", "zigbee_init", "run", "returned"}
    /\ zb_alarms = {}

\* C26: after startup and before the first render the on flag of every
\* segment is FALSE when the loaded startup_on_off is 0 (off), TRUE when it
\* is 1 (on), the negation of the loaded on when it is 2 (toggle), and the
\* loaded on for every other value; a second application would undo the
\* toggle, so the policy has been applied exactly once.
C26_PowerOnPolicy ==
    BootedNotRendered =>
        \A n \in Segs :
            LET l == LoadedLight(n)
            IN  s_state[n].on =
                    (IF l.startup_on_off = 0 THEN FALSE
                     ELSE IF l.startup_on_off = 1 THEN TRUE
                     ELSE IF l.startup_on_off = 2 THEN ~l.on
                     ELSE l.on)

\* Booted with segment 0 stored on with toggle, segment 1 stored off with
\* policy on: segment 0 is now off and segment 1 on
C26_Witness ==
    /\ BootedNotRendered
    /\ pc = "run"
    /\ DOMAIN nvs.seg_state = Segs
    /\ nvs.seg_state[0].startup_on_off = 2 /\ nvs.seg_state[0].on
    /\ ~s_state[0].on
    /\ nvs.seg_state[1].startup_on_off = 1 /\ ~nvs.seg_state[1].on
    /\ s_state[1].on
    /\ ~s_state[2].on


\* C28: sync_zcl_from_state never runs inside an invocation of an
\* attribute-write handler: the handler of a preset recall returns without
\* having run it and, when the recall succeeded, with sync_zcl_deferred_cb
\* pending in the scheduler; the routine runs only as that callback, taken
\* from the pending ones while the Zigbee task is in no handler.
C28_SyncIsDeferred ==
    [][/\ last'.op = "recall_slot" =>
            /\ ~last'.sync_ran
            /\ last'.ret = ESP_OK => "sync_zcl_deferred_cb" \in zb_alarms'
       /\ ("sync_ran" \in DOMAIN last' /\ last'.sync_ran) =>
            /\ last'.op = "sync_zcl_deferred_cb"
            /\ "sync_zcl_deferred_cb" \in zb_alarms
            /\ tasks["zb_main"].pc = "idle"]_vars

\* The deferred callback has run after the recall of slot 0, whose level is
\* in s_state
C28_Witness ==
    /\ last.op = "sync_zcl_deferred_cb"
    /\ last.sync_ran
    /\ "sync_zcl_deferred_cb" \notin zb_alarms
    /\ \A n \in Segs : s_state[n].level = 200


\* A render pass has just run
RenderPassed == last.op = "led_render_cb"
\* The step before failed: a recall of an empty slot or of a slot past the
\* last, a save to a slot past the last, a save the store did not take
ErrorReturned == last.ret \notin {ESP_OK, NULL}
\* segment_manager_load found a blob it does not recognise
SchemaMismatch == DOMAIN nvs.seg_state # Segs

\* C29: once led_renderer_start has run the render loop runs forever: every
\* led_render_cb leaves led_render_cb pending for the next pass, no other
\* step takes it from the pending callbacks, and whenever the loop has been
\* started, in particular after a step that returned an error or after a
\* boot that found a blob of an unknown format, a render pass follows.
C29_RenderLoopForever ==
    /\ [][RenderPassed' => "led_render_cb" \in zb_alarms']_vars
    /\ [][ZigbeeRunning => ZigbeeRunning']_vars
    /\ (ZigbeeRunning /\ ~RenderPassed) ~> RenderPassed
    /\ (ZigbeeRunning /\ ErrorReturned) ~> RenderPassed
    /\ (ZigbeeRunning /\ SchemaMismatch /\ ~RenderPassed) ~> RenderPassed

\* A render pass has run, and the callback is pending again, on a device
\* that booted from a blob of an unknown format, has had its global
\* transition time set to 0 and has no save pending
C29_Witness ==
    /\ RenderPassed
    /\ "led_render_cb" \in zb_alarms
    /\ g_global_transition_ms = 0
    /\ ~s_save_timer
    /\ SchemaMismatch


\* Pixel i of strip s lies in the range update_leds writes for segment n
Covers(n, s, i) ==
    /\ s_geom[n].count > 0
    /\ s_geom[n].strip_id = s
    /\ s_geom[n].start <= i
    /\ i < s_geom[n].start + s_geom[n].count
\* update_leds was the last thing to run
JustRendered == last.op \in {"led_render_cb", "level_write", "ct_write"}
\* The values the transitions of a segment hand out
LevelNow(st) == transition_get_value(st.level_trans)
HueNow(st) == transition_get_value(st.hue_trans)
SatNow(st) == transition_get_value(st.sat_trans)

\* C30: after update_leds every pixel of a segment that is on (and that no
\* later segment has drawn over) has W = the current value of the level
\* transition and R = G = B = 0 when color_mode is 2 (colour temperature),
\* and otherwise W = 0 and (R, G, B) = hsv_to_rgb of the current values of
\* the hue, saturation and level transitions, not of the settled fields.
C30_PixelsFromTransitions ==
    JustRendered =>
        \A s \in Strips : \A i \in DOMAIN s_strips[s].pixel_buf :
            \A n \in Segs :
                (/\ Covers(n, s, i)
                 /\ s_state[n].on
                 /\ \A m \in Segs : m > n => ~Covers(m, s, i))
                => LET px == s_strips[s].pixel_buf[i]
                       st == s_state[n]
                       rgb == hsv_to_rgb(HueNow(st), SatNow(st), LevelNow(st))
                   IN  /\ frame[s][i] = px
                       /\ IF st.color_mode = 2
                          THEN px = [r |-> 0, g |-> 0, b |-> 0,
                                     w |-> LevelNow(st)]
                          ELSE px = [r |-> rgb[1], g |-> rgb[2],
                                     b |-> rgb[3], w |-> 0]

\* A render pass in the middle of a level fade of segment 0 in white mode:
\* the pixels carry the level the fade has reached, not the level written
C30_Witness ==
    /\ last.op = "led_render_cb"
    /\ s_state[0].on
    /\ s_state[0].color_mode = 2
    /\ s_state[0].level_trans.active
    /\ LevelNow(s_state[0]) # s_state[0].level
    /\ LevelNow(s_state[0]) # s_state[0].level_trans.start_value
    /\ s_strips[0].pixel_buf[0].w = LevelNow(s_state[0])


\* C31: handle_delete_slot_write(slot) with slot <= 7 returns
\* ESP_ERR_NOT_FOUND when the slot is empty already, and ESP_OK only when
\* the slot was occupied (and has been deleted).
C31_DeleteEmptyIsNotFound ==
    [][(last'.op = "delete_slot" /\ last'.target \in Slots) =>
          /\ s_slots[last'.target].name_length = 0
                => last'.ret = ESP_ERR_NOT_FOUND
          /\ last'.ret = ESP_OK
                => /\ s_slots[last'.target].name_length > 0
                   /\ s_slots'[last'.target].name_length = 0]_vars

\* C32: after a delete of an occupied slot the slot is empty (a recall of
\* it returns ESP_ERR_NOT_FOUND and preset_manager_count is one lower),
\* every other slot is as it was, and a save into the slot succeeds and
\* occupies it again.
C32_DeleteFreesTheSlot ==
    [][(/\ last'.op = "delete_slot"
        /\ last'.target \in Slots
        /\ s_slots[last'.target].name_length > 0) =>
          LET t == last'.target
              again == preset_manager_save_nvs(s_slots', nvs', t, s_state',
                                               TRUE)
          IN  /\ s_slots'[t].name_length = 0
              /\ preset_manager_recall(s_slots', t, s_state')
                    = <<ESP_ERR_NOT_FOUND, s_state'>>
              /\ preset_manager_count(s_slots')
                    = preset_manager_count(s_slots) - 1
              /\ \A k \in Slots \ {t} : s_slots'[k] = s_slots[k]
              /\ again[1] = ESP_OK
              /\ again[2][t].name_length > 0
              /\ again[2][t].segments = s_state']_vars

\* Slot 0, which was occupied, has been deleted in memory and in the store,
\* with the preset of slot 1 still in place
C32_Witness ==
    /\ last.op = "delete_slot" /\ last.target = 0 /\ last.ret = ESP_OK
    /\ last.was_occupied
    /\ s_slots[0] = EmptySlot
    /\ nvs.prst[0] = EmptySlot
    /\ s_slots[1] = StoredPreset
    /\ preset_manager_count(s_slots) = 1

\* C33: a recall that succeeds leaves startup_on_off of every segment as it
\* was before the recall, whatever the slot holds in that field.
C33_RecallKeepsStartupOnOff ==
    [][(last'.op = "recall_slot" /\ last'.ret = ESP_OK) =>
          \A n \in Segs :
              s_state'[n].startup_on_off = s_state[n].startup_on_off]_vars

\* Slot 1, saved with startup_on_off 255, has been recalled on a device
\* whose segment 0 has startup_on_off 1
C33_Witness ==
    /\ last.op = "recall_slot" /\ last.target = 1 /\ last.ret = ESP_OK
    /\ s_slots[1] = StoredPreset
    /\ s_slots[1].segments[0].startup_on_off = DEFAULT_STARTUP_ON_OFF
    /\ s_state[0].startup_on_off = 1
    /\ s_state[0].level = 200


\* C38: a slot for which the store holds no preset is empty after
\* preset_manager_init, on a flash without the version flag as well: it is
\* not counted as occupied and a recall of it returns ESP_ERR_NOT_FOUND and
\* changes no segment state.
C38_UnsavedSlotIsEmpty ==
    last.op = "preset_manager_init" =>
        /\ \A k \in Slots :
              nvs.prst[k] = EmptySlot =>
                  /\ s_slots[k].name_length = 0
                  /\ preset_manager_recall(s_slots, k, s_state)
                        = <<ESP_ERR_NOT_FOUND, s_state>>
        /\ preset_manager_count(s_slots)
              = Cardinality({k \in Slots : nvs.prst[k] # EmptySlot})

\* C39: when the store does not take the preset, the save returns the error
\* and the slot in memory is what it was before the call.
C39_FailedSaveKeepsSlot ==
    [][(/\ last'.op = "save_slot"
        /\ last'.target \in Slots
        /\ last'.ret # ESP_OK) => s_slots' = s_slots]_vars


\* C34: when timer_callback has run between two field writes of a
\* transition_start(new_target, d > 0) on an active transition, then at the
\* return of transition_start transition_get_value is what it was when the
\* call began, and the transition is active toward new_target.
C34_StartAtomicForTimer ==
    (last.op = "start" /\ last.interleaved) =>
        /\ transition_get_value(trans["level"]) = last.prev_value
        /\ trans["level"].active
        /\ trans["level"].target_value = last.target


\* elapsed < duration_ms * 1000, the product taken exactly
BeforeTheEnd(elapsed, ms) ==
    \/ (elapsed \div 1000) \div 65536 < ms[1]
    \/ /\ (elapsed \div 1000) \div 65536 = ms[1]
       /\ (elapsed \div 1000) % 65536 < ms[2]

\* C40: for every duration_ms in 1..2^32-1, a tick whose elapsed time since
\* the start is less than duration_ms * 1000 microseconds does not complete
\* the transition.
C40_NoEarlyCompletion ==
    (/\ calc.fn = "transition_tick"
     /\ calc.out # PENDING
     /\ BeforeTheEnd(calc.out[1], <<calc.args[1], calc.args[2]>>))
    => calc.out[2] = 0

\* The settled fields of every segment: on, level, hue, saturation, colour
\* mode, colour temperature and power-on behaviour
SettledOf(state) == [n \in Segs |-> NvsLight(state[n])]

\* s_state and the attribute store agree with the preset of the slot
HoldsPreset(slot) ==
    \A n \in Segs :
        LET p == SlotSegments(s_slots[slot])[n]
        IN  /\ s_state[n].level = p.level
            /\ s_state[n].hue = p.hue
            /\ s_state[n].saturation = p.saturation
            /\ s_state[n].color_temp = p.color_temp
            /\ zcl_attrs[n].level = p.level
            /\ ZclHueToDegrees(zcl_attrs[n].enh_hue) = p.hue
            /\ zcl_attrs[n].sat = p.saturation
            /\ zcl_attrs[n].ct = p.color_temp

\* C35: after a successful recall with no command after it, the segments and
\* the attribute store come to hold the level, hue, saturation and colour
\* temperature of the preset and keep them: the poll that runs before the
\* deferred synchronisation does not overwrite them.
C35_RecallSettles ==
    (last.op = "recall_slot" /\ last.ret = ESP_OK) ~> []HoldsPreset(0)

\* C36: every change of a settled field of a segment, made by the attribute
\* handler, the recall of a preset or the poll of the render loop, leaves the
\* save timer armed.
C36_ChangeSchedulesSave ==
    [][SettledOf(s_state') # SettledOf(s_state) => s_save_timer']_vars

\* C37: when the attribute store holds what sync_zcl_from_state writes for
\* the segments, a pass of led_render_cb changes no settled field and starts
\* no transition.
C37_PollAfterSyncIsQuiet ==
    [][(/\ zcl_attrs = sync_zcl_from_state(s_state)
        /\ last'.op = "led_render_cb") => s_state' = s_state]_vars

====
